---- MODULE Spec2Model ----
(***************************************************************************)
(* A model of v4l2py's Device lifecycle and streaming engine               *)
(* (src/v4l2py/device.py): the Device object with its re-entrant scope,    *)
(* one VideoCapture session (BufferManager + MemoryMap + QueueReader) and  *)
(* the kernel's buffer queue behind the device descriptor.                 *)
(*                                                                         *)
(* A Python call is modelled as an operator from a state record to a       *)
(* state record; the field exc carries a raised exception, and a call      *)
(* that finds exc set does nothing (the statements after a raise are       *)
(* skipped).  An action runs one whole caller-visible operation and        *)
(* commits the resulting record to the variables.                          *)
(***************************************************************************)
EXTENDS Integers, Sequences, FiniteSets, TLC

VARIABLES
    name_or_file,   \* Device.__init__ argument: "path" or "file"
    fobj,           \* Device._fobj: "None" or "file"
    blocking,       \* the io policy (or the file given) is in blocking mode
    fdOpen,         \* the OS descriptor behind _fobj is open
    context_level,  \* ReentrantContextManager._context_level of the Device
    info,           \* Device.info: "None" or "Info"
    buffer,         \* VideoCapture.buffer: "None" or "MemoryMap"
    bm_buffers,     \* BufferManager.buffers: NoBuffers or the QUERYBUF indices
    mm_buffers,     \* MemoryMap.buffers: NoMaps or one "open"/"closed" per mmap
    mm_format,      \* MemoryMap.format: NoFormat or the format read by G_FMT
    mm_read,        \* MemoryMap.read: "read" or the method it was rebound to
    reader_index,   \* QueueReader.index: NoIndex or a buffer index
    fr_selector,    \* FrameReader._selector: "None", "epoll" or "stale" (fd gone)
    fr_buffer,      \* FrameReader._buffer: NoQueue or the queued futures
    er_selector,    \* EventReader._selector: "None", "epoll" or "stale" (fd gone)
    er_buffer,      \* EventReader._buffer: NoEvents or the queued futures
    kevq,           \* kernel: events pending on the descriptor, oldest first
    evseq,          \* kernel: events produced so far on the descriptor
    kcount,         \* kernel: number of buffers reserved by REQBUFS
    kown,           \* kernel: state of every buffer index
    kinq,           \* kernel: queued buffers, in QBUF order
    kdoneq,         \* kernel: filled buffers, in fill order
    streaming,      \* kernel: STREAMON is in effect
    kseq,           \* kernel: frames produced so far
    kfill,          \* kernel: number of the frame last written to each buffer
    kfmt,           \* kernel: the format the driver is set to
    frame,          \* the Frame the last library operation returned, or NoFrame
    delivered,      \* caller: number of the latest frame it has received
    oplog,          \* calls issued by the last library operation, in order
    lastOp,         \* name of the last library operation
    exc,            \* exception the last library operation raised, or "none"
    peakUser,       \* most buffers user-owned at once during the last operation
    devScopes,      \* caller: `with device` scopes entered and not yet left
    vcScope,        \* caller: inside `with VideoCapture(device)`
    nframes,        \* caller: frames received from the session so far
    queuedAtOpen,   \* kernel-owned buffers right after enqueue_buffers
    vc_streamon,    \* the session issued a STREAMON no STREAMOFF has followed
    kctrl,          \* kernel: the control descriptors of the driver, by id
    kval,           \* kernel: the current value of every control
    controls,       \* Device.controls: NoControls or the registry, in order
    cm_config,      \* ConfigManager.config: NoConfig or the parsed sections
    cm_filename,    \* ConfigManager.filename: "None" or "path"
    file,           \* the configuration file on disk, or NoFile
    target,         \* caller: registry position the last operation addressed
    arg,            \* caller: the value the last operation was given
    key,            \* caller: the key the last lookup was given
    path,           \* caller: the path device_number was given, as characters
    number,         \* the result of device_number: <<>> for None, or <<n>>
    kenum,          \* kernel: its answer to the enumeration ioctl, per index
    enum,           \* caller: the arguments iter_read was given
    yielded,        \* the indices iter_read yielded to its caller, in order
    envFault        \* the environment failed a call of the last operation

vars == <<name_or_file, fobj, blocking, fdOpen, context_level, info, buffer,
          bm_buffers, mm_buffers,
          mm_format, mm_read, reader_index, fr_selector, fr_buffer,
          er_selector, er_buffer, kevq, evseq,
          kcount, kown, kinq, kdoneq, streaming, kseq, kfill, kfmt, frame,
          delivered,
          oplog, lastOp, exc, peakUser, devScopes, vcScope, nframes,
          queuedAtOpen, vc_streamon, kctrl, kval, controls, cm_config,
          cm_filename, file, target, arg, key, path, number, kenum, enum,
          yielded, envFault>>

----------------------------------------------------------------------------
(* Bounds and program constants *)

Size == 2          \* BufferManager.size default
MaxGrant == 3      \* largest count the kernel grants in REQBUFS
MaxDepth == 2      \* deepest nesting of `with device` the caller performs
MaxFrames == 2     \* frames the caller takes from one session

NoIndex == -1              \* QueueReader.index is None
NoBuffers == <<-1>>        \* BufferManager.buffers is None
NoMaps == <<"None">>       \* MemoryMap.buffers is None
NoFormat == 0              \* MemoryMap.format is None
Formats == {1, 2}          \* the formats the driver can be set to

MaxSeq == 3        \* frames the kernel produces in one run
Length == 2        \* v4l2_buffer.length: bytes in one buffer

\* v4l2_buffer.bytesused of the n-th frame: empty, partial and full frames
BytesUsed(n) == n % (Length + 1)

\* the page of a buffer after the n-th frame was written to it
Page(n) == [k \in 1 .. Length |-> IF k <= BytesUsed(n) THEN n ELSE 0]

\* Frame(data, buff, format)
Frame(data, index, n, format) ==
    [data |-> data, index |-> index, sequence |-> n, nbytes |-> BytesUsed(n),
     format |-> format]

NoFrame == Frame(<<>>, NoIndex, 0, NoFormat)

\* a future of the async reader: a frame or the exception of raw_read
Future(e, f) == [exc |-> e, frame |-> f]

NoQueue == <<Future("None", NoFrame)>>      \* FrameReader._buffer is None

event_max_queue_size == 100        \* EventReader.__init__ default
MaxEvents == 102   \* events the kernel produces on one descriptor
MaxPending == 1    \* events the kernel holds before the callback runs

\* a future of the event reader: an event or the exception of deque_event
EventFuture(e, n) == [exc |-> e, event |-> n]

NoEvents == <<EventFuture("None", 0)>>      \* EventReader._buffer is None
max_queue_size == 1        \* FrameReader.__init__ default

\* Python values: an int, a bool (an int as well), a str or None
PyInt(n) == [t |-> "int", i |-> n, s |-> ""]

PyBool(b) == [t |-> "bool", i |-> IF b THEN 1 ELSE 0, s |-> ""]

PyStr(x) == [t |-> "str", i |-> 0, s |-> x]

PyNone == [t |-> "None", i |-> 0, s |-> ""]

MaxControls == 2   \* controls the driver exposes at once
MaxInt == 3        \* greatest integer a caller writes or a numeral denotes
MaxCycles == 2     \* most passes the caller asks of ConfigManager.apply

Ints == -1 .. MaxInt

\* the decimal numeral of an integer
Decimal(n) == <<"-1", "0", "1", "2", "3", "4", "5">>[n + 2]

\* str.lower() of one character
Lower(c) ==
    LET upper == <<"A", "B", "C", "D", "E", "F", "G", "H", "I", "J", "K", "L",
                   "M", "N", "O", "P", "Q", "R", "S", "T", "U", "V", "W", "X",
                   "Y", "Z">>
        lower == <<"a", "b", "c", "d", "e", "f", "g", "h", "i", "j", "k", "l",
                   "m", "n", "o", "p", "q", "r", "s", "t", "u", "v", "w", "x",
                   "y", "z">>
    IN  IF \E k \in 1 .. 26 : upper[k] = c
        THEN lower[CHOOSE k \in 1 .. 26 : upper[k] = c]
        ELSE c

\* a key of the registry: an id, or a name (with no id, -1)
IdKey(id) == [id |-> id, name |-> <<>>]

NameKey(name) == [id |-> -1, name |-> name]

NoKey == IdKey(-1)

\* v4l2_query_ext_ctrl as the driver reports it
Ctrl(id, name, type, flags, minimum, maximum, default_value) ==
    [id |-> id, name |-> name, type |-> type, flags |-> flags,
     minimum |-> minimum, maximum |-> maximum,
     default_value |-> default_value]

\* the controls a driver can expose: ids 1..15 are of one class, 17..31 of
\* the next; two names share one config_name
Catalogue ==
    {Ctrl(1, <<"A", " ", "b">>, "INTEGER", {}, 0, 2, 1),
     Ctrl(2, <<"a", ",", " ", "(", "B", ")">>, "BOOLEAN", {}, 0, 1, 1),
     Ctrl(3, <<"O", "f", "f">>, "INTEGER", {"disabled"}, 0, 2, 0),
     Ctrl(17, <<"M", "o", "d", "e">>, "MENU", {}, 0, 1, 0),
     Ctrl(18, <<"L", "o", "c", "k">>, "INTEGER", {"read_only"}, 0, 2, 2),
     Ctrl(18, <<"L", "o", "c", "k">>, "BOOLEAN", {"inactive", "grabbed"}, 0, 1, 1),
     Ctrl(19, <<"G", "o">>, "BUTTON", {"write_only"}, 0, 0, 0)}

\* QUERY_EXT_CTRL with NEXT_CTRL reports the controls by ascending id
KernelControls ==
    {q \in UNION {[1 .. n -> Catalogue] : n \in 1 .. MaxControls} :
        \A j, k \in 1 .. Len(q) : j < k => q[j].id < q[k].id}

\* Device.controls is None
NoControls == <<[info |-> Ctrl(-1, <<>>, "None", {}, 0, 0, 0), clipping |-> FALSE]>>

\* a parsed configuration: its sections and the items of [controls]
Config(sections, items) == [sections |-> sections, controls |-> items]

NoConfig == Config({"None"}, <<>>)     \* ConfigManager.config is None

NoFile == Config({"absent"}, <<>>)     \* no file at the path

\* the arguments of iter_read: range(start, stop, step) and ignore_einval
Enum(start, stop, step, ignore_einval) ==
    [start |-> start, stop |-> stop, step |-> step,
     ignore_einval |-> ignore_einval]

NoEnum == Enum(0, 0, 1, FALSE)

KIdx == 0 .. (MaxGrant - 1)

\* range(n) as a sequence
Range(n) == [k \in 1 .. n |-> k - 1]

\* the calls a fault can be injected into
OpenFaults == {"none", "io.open", "QUERYCAP", "controls"}
StartFaults == {"none", "REQBUFS", "QUERYBUF", "mmap", "QBUF", "G_FMT", "STREAMON"}
StopFaults == {"none", "STREAMOFF", "REQBUFS0"}
ReadFaults == {"none", "DQBUF"}
ControlFaults == {"none", "G_CTRL", "S_CTRL"}

----------------------------------------------------------------------------
(* The state record the call operators work on *)

St(fault, grant) ==
    [fobj |-> fobj, blocking |-> blocking, fdOpen |-> fdOpen,
     context_level |-> context_level,
     info |-> info, buffer |-> buffer, bm_buffers |-> bm_buffers,
     mm_buffers |-> mm_buffers, mm_format |-> mm_format,
     mm_read |-> mm_read, kseq |-> kseq, kfill |-> kfill, kfmt |-> kfmt,
     delivered |-> delivered,
     frame |-> NoFrame, data |-> <<>>, fmt |-> NoFormat,
     er_selector |-> er_selector, er_buffer |-> er_buffer,
     kevq |-> kevq, evseq |-> evseq,
     reader_index |-> reader_index, fr_selector |-> fr_selector,
     fr_buffer |-> fr_buffer, kcount |-> kcount, kown |-> kown,
     kinq |-> kinq, kdoneq |-> kdoneq, streaming |-> streaming,
     queuedAtOpen |-> queuedAtOpen, vc_streamon |-> vc_streamon,
     kctrl |-> kctrl, kval |-> kval, controls |-> controls,
     cm_config |-> cm_config, cm_filename |-> cm_filename, file |-> file,
     val |-> PyNone, target |-> 0, arg |-> PyNone, key |-> NoKey,
     legacy_controls |-> "False",
     path |-> path, number |-> number, kenum |-> kenum, enum |-> enum,
     yielded |-> yielded,
     oplog |-> <<>>, exc |-> "none", ret |-> NoIndex, readable |-> TRUE,
     peakUser |-> Cardinality({i \in DOMAIN kown : kown[i] = "user"}),
     fault |-> fault, grant |-> grant, envFault |-> FALSE]

Commit(s, op) ==
    /\ name_or_file' = name_or_file
    /\ fobj' = s.fobj
    /\ blocking' = s.blocking
    /\ fdOpen' = s.fdOpen
    /\ context_level' = s.context_level
    /\ info' = s.info
    /\ buffer' = s.buffer
    /\ bm_buffers' = s.bm_buffers
    /\ mm_buffers' = s.mm_buffers
    /\ mm_format' = s.mm_format
    /\ mm_read' = s.mm_read
    /\ kfill' = s.kfill
    /\ kfmt' = s.kfmt
    /\ kseq' = s.kseq
    /\ frame' = s.frame
    /\ delivered' = IF s.frame = NoFrame THEN s.delivered ELSE s.frame.sequence
    /\ reader_index' = s.reader_index
    /\ fr_selector' = s.fr_selector
    /\ fr_buffer' = s.fr_buffer
    /\ er_selector' = s.er_selector
    /\ er_buffer' = s.er_buffer
    /\ kevq' = s.kevq
    /\ evseq' = s.evseq
    /\ kcount' = s.kcount
    /\ kown' = s.kown
    /\ kinq' = s.kinq
    /\ kdoneq' = s.kdoneq
    /\ streaming' = s.streaming
    /\ queuedAtOpen' = s.queuedAtOpen
    /\ vc_streamon' = s.vc_streamon
    /\ kctrl' = s.kctrl
    /\ kval' = s.kval
    /\ controls' = s.controls
    /\ cm_config' = s.cm_config
    /\ cm_filename' = s.cm_filename
    /\ file' = s.file
    /\ target' = s.target
    /\ arg' = s.arg
    /\ key' = s.key
    /\ path' = s.path
    /\ number' = s.number
    /\ kenum' = s.kenum
    /\ enum' = s.enum
    /\ yielded' = s.yielded
    /\ envFault' = s.envFault
    /\ oplog' = s.oplog
    /\ exc' = s.exc
    /\ peakUser' = s.peakUser
    /\ lastOp' = op


Raised(s) == s.exc # "none"

Call(c, i, ok) == [c |-> c, i |-> i, ok |-> ok]

Log(s, c, i, ok) == [s EXCEPT !.oplog = Append(@, Call(c, i, ok))]

Raise(s, e) == [s EXCEPT !.exc = e]

\* an injected fault hits the first call of its kind and is then spent
Hit(s, c) == s.fault = c

Spend(s) == [s EXCEPT !.fault = "none", !.envFault = s.fault # "none"]

UserOwned(own) == {i \in KIdx : own[i] = "user"}

KernelOwned(own) == {i \in KIdx : own[i] \in {"queued", "done"}}

Max(a, b) == IF a >= b THEN a ELSE b

----------------------------------------------------------------------------
(* The kernel behind the descriptor (videobuf2 queue rules) *)

\* a descriptor check that lets every call through
fileno_unchecked(s) == s

\* Device.fileno: self._fobj.fileno()
fileno(s) ==
    IF s.fobj = "None" THEN Raise(s, "AttributeError")
    ELSE IF ~s.fdOpen THEN Raise(s, "ValueError")
    ELSE s

\* the queue is released when the descriptor is closed
KernelRelease(s) ==
    [s EXCEPT !.kcount = 0, !.kown = [i \in KIdx |-> "none"],
              !.kseq = 0, !.kfill = [i \in KIdx |-> 0],
              !.kevq = <<>>, !.evseq = 0,
              !.kinq = <<>>, !.kdoneq = <<>>, !.streaming = FALSE]

\* ioctl(fd, IOC.REQBUFS, req): refused while streaming (EBUSY); otherwise
\* the old buffers are freed and the granted count is reserved
ioctl_REQBUFS(s, count) ==
    IF Hit(s, IF count = 0 THEN "REQBUFS0" ELSE "REQBUFS") \/ s.streaming
    THEN Raise(Spend(Log(s, "REQBUFS", count, FALSE)), "OSError")
    ELSE LET g == IF count = 0 THEN 0 ELSE s.grant
         IN  [Log(s, "REQBUFS", count, TRUE) EXCEPT
                 !.kcount = g,
                 !.kown = [i \in KIdx |-> IF i < g THEN "idle" ELSE "none"],
                 !.kfill = [i \in KIdx |-> 0],
                 !.kinq = <<>>, !.kdoneq = <<>>]

\* ioctl(fd, IOC.QUERYBUF, buff): EINVAL for an index that is not reserved
ioctl_QUERYBUF(s, i) ==
    IF Hit(s, "QUERYBUF") \/ i >= s.kcount
    THEN Raise(Spend(Log(s, "QUERYBUF", i, FALSE)), "OSError")
    ELSE Log(s, "QUERYBUF", i, TRUE)

\* ioctl(fd, IOC.QBUF, buff): EINVAL for an index that is not reserved or
\* that the kernel already owns
ioctl_QBUF(s, i) ==
    IF Hit(s, "QBUF") \/ i \notin KIdx \/ i >= s.kcount
       \/ s.kown[i] \in {"queued", "done"}
    THEN Raise(Spend(Log(s, "QBUF", i, FALSE)), "OSError")
    ELSE [Log(s, "QBUF", i, TRUE) EXCEPT
             !.kown[i] = "queued", !.kinq = Append(@, i)]

\* ioctl(fd, IOC.DQBUF, buff): EINVAL when not streaming, EAGAIN when no
\* buffer is filled; otherwise the oldest filled buffer goes to the caller
ioctl_DQBUF(s) ==
    IF Hit(s, "DQBUF") \/ ~s.streaming \/ s.kdoneq = <<>>
    THEN Raise(Spend(Log(s, "DQBUF", NoIndex, FALSE)), "OSError")
    ELSE LET i == Head(s.kdoneq)
             own == [s.kown EXCEPT ![i] = "user"]
         IN  [Log(s, "DQBUF", i, TRUE) EXCEPT
                 !.kown = own, !.kdoneq = Tail(@), !.ret = i,
                 !.peakUser = Max(@, Cardinality(UserOwned(own)))]

\* ioctl(fd, IOC.STREAMON, btype): EINVAL when no buffers are reserved
ioctl_STREAMON(s) ==
    IF Hit(s, "STREAMON") \/ s.kcount = 0
    THEN Raise(Spend(Log(s, "STREAMON", 0, FALSE)), "OSError")
    ELSE [Log(s, "STREAMON", 0, TRUE) EXCEPT
             !.streaming = TRUE, !.vc_streamon = TRUE,
             !.kseq = 0, !.kfill = [i \in KIdx |-> 0]]

\* ioctl(fd, IOC.STREAMOFF, btype): every reserved buffer leaves the queues
ioctl_STREAMOFF(s) ==
    IF Hit(s, "STREAMOFF")
    THEN Raise(Spend(Log([s EXCEPT !.vc_streamon = FALSE],
                         "STREAMOFF", 0, FALSE)), "OSError")
    ELSE [Log(s, "STREAMOFF", 0, TRUE) EXCEPT
             !.streaming = FALSE, !.vc_streamon = FALSE,
             !.kseq = 0, !.kfill = [i \in KIdx |-> 0],
             !.kown = [i \in KIdx |-> IF i < s.kcount THEN "idle" ELSE "none"],
             !.kinq = <<>>, !.kdoneq = <<>>]

\* ioctl(fd, IOC.S_FMT, f): the driver may refuse it as busy
ioctl_S_FMT(s, v) ==
    IF Hit(s, "S_FMT")
    THEN Raise(Spend(Log(s, "S_FMT", v, FALSE)), "OSError")
    ELSE [Log(s, "S_FMT", v, TRUE) EXCEPT !.kfmt = v]

\* ioctl(fd, IOC.G_FMT, f)
ioctl_G_FMT(s) ==
    IF Hit(s, "G_FMT")
    THEN Raise(Spend(Log(s, "G_FMT", 0, FALSE)), "OSError")
    ELSE [Log(s, "G_FMT", 0, TRUE) EXCEPT !.fmt = s.kfmt]

----------------------------------------------------------------------------
(* Module-level wrappers and Device methods: each reads self.fileno()      *)
(* and issues one ioctl                                                    *)

\* the statement F runs unless an exception is already propagating
Try(s, F(_)) == IF Raised(s) THEN s ELSE F(s)

\* if not req.count: raise IOError("Not enough buffer memory")
CheckCount(s) == IF s.kcount = 0 THEN Raise(s, "IOError") ELSE s

request_buffers(s, count) ==
    Try(Try(fileno(s), LAMBDA x : ioctl_REQBUFS(x, count)), CheckCount)

free_buffers(s) == Try(fileno(s), LAMBDA x : ioctl_REQBUFS(x, 0))

query_buffer(s, i) == Try(fileno(s), LAMBDA x : ioctl_QUERYBUF(x, i))

enqueue_buffer(s, i) == Try(fileno(s), LAMBDA x : ioctl_QBUF(x, i))

dequeue_buffer(s) == Try(fileno(s), ioctl_DQBUF)

stream_on(s) == Try(fileno(s), ioctl_STREAMON)

stream_off(s) == Try(fileno(s), ioctl_STREAMOFF)

get_format(s) == Try(fileno(s), ioctl_G_FMT)

set_format(s, v) == Try(fileno(s), LAMBDA x : ioctl_S_FMT(x, v))

\* mmap.mmap(fd, length, offset=offset)
mem_map(s, i) ==
    IF Hit(s, "mmap")
    THEN Raise(Spend(Log(s, "mmap", i, FALSE)), "OSError")
    ELSE Log(s, "mmap", i, TRUE)

RECURSIVE QueryEach(_, _, _)
QueryEach(s, i, n) ==
    IF i >= n \/ Raised(s) THEN s ELSE QueryEach(query_buffer(s, i), i + 1, n)

\* request + query buffers
create_buffers(s, count) ==
    Try(request_buffers(s, count), LAMBDA x : QueryEach(x, 0, count))

RECURSIVE enqueue_buffers(_, _, _)
enqueue_buffers(s, i, count) ==
    IF i >= count \/ Raised(s) THEN s
    ELSE enqueue_buffers(enqueue_buffer(s, i), i + 1, count)

RECURSIVE MapEach(_, _, _)
MapEach(s, i, n) ==
    IF i >= n \/ Raised(s) THEN s ELSE MapEach(mem_map(s, i), i + 1, n)

----------------------------------------------------------------------------
(* BufferManager *)

\* `if x:` on a field that is None or a list
Truthy(list, none) == list # none /\ Len(list) > 0

SetBuffers(s, v) == [s EXCEPT !.bm_buffers = v]

BufferManager_free_buffers(s) ==
    Try(free_buffers(s), LAMBDA x : SetBuffers(x, NoBuffers))

\* create_buffers without the "already requested" check
BufferManager_create_buffers_unchecked(s) ==
    Try(create_buffers(s, Size), LAMBDA x : SetBuffers(x, Range(Size)))

BufferManager_create_buffers(s) ==
    IF Truthy(s.bm_buffers, NoBuffers) THEN Raise(s, "V4L2Error")
    ELSE Try(create_buffers(s, Size), LAMBDA x : SetBuffers(x, Range(Size)))

BufferManager_enqueue_buffers(s) == enqueue_buffers(s, 0, Size)

----------------------------------------------------------------------------
(* QueueReader and MemoryMap *)

SetIndex(s, v) == [s EXCEPT !.reader_index = v]

QueueReader_enter(s) == Try(dequeue_buffer(s), LAMBDA x : SetIndex(x, x.ret))

\* an exit that forgets the index without giving the buffer back
QueueReader_exit_no_qbuf(s) == SetIndex(s, NoIndex)

QueueReader_exit(s) ==
    Try(enqueue_buffer(s, s.reader_index), LAMBDA x : SetIndex(x, NoIndex))

\* a slice that takes the whole mapping
Slice_whole_buffer(s, i) ==
    IF s.mm_buffers = NoMaps THEN Raise(s, "TypeError")
    ELSE IF i + 1 > Len(s.mm_buffers) THEN Raise(s, "IndexError")
    ELSE IF s.mm_buffers[i + 1] # "open" THEN Raise(s, "ValueError")
    ELSE [Log(s, "slice", i, TRUE) EXCEPT !.data = Page(s.kfill[i])]

\* self.buffers[buff.index][: buff.bytesused]
Slice(s, i) ==
    IF s.mm_buffers = NoMaps THEN Raise(s, "TypeError")
    ELSE IF i + 1 > Len(s.mm_buffers) THEN Raise(s, "IndexError")
    ELSE IF s.mm_buffers[i + 1] # "open" THEN Raise(s, "ValueError")
    ELSE [Log(s, "slice", i, TRUE) EXCEPT
             !.data = SubSeq(Page(s.kfill[i]), 1, BytesUsed(s.kfill[i]))]

\* an exception of the with body is re-raised after __exit__ has returned;
\* an exception of __exit__ replaces it
Reraise(s, e) == IF Raised(s) THEN s ELSE Raise(s, e)

\* QueueReader.__exit__ as the with statement runs it: on return and on raise
WithExit(body) == Reraise(QueueReader_exit(Raise(body, "none")), body.exc)

\* a grab that re-queues only when the slice succeeded
MemoryMap_raw_grab_no_unwind(s) ==
    Try(Try(QueueReader_enter(s), LAMBDA x : Slice(x, x.ret)), QueueReader_exit)

\* a grab whose re-queue also runs when the dequeue itself failed
MemoryMap_raw_grab_always_exit(s) ==
    WithExit(Try(QueueReader_enter(s), LAMBDA x : Slice(x, x.ret)))

\* a grab that takes the slice after the buffer was given back
MemoryMap_raw_grab_slice_after_exit(s) ==
    Try(QueueReader_enter(s),
        LAMBDA x : Try(WithExit(x), LAMBDA y : Slice(y, x.ret)))

\* with self.reader as buff: return self.buffers[buff.index][: buff.bytesused]
\* (the slice of an mmap object is a bytes object, a copy)
MemoryMap_raw_grab(s) ==
    Try(QueueReader_enter(s), LAMBDA x : WithExit(Slice(x, x.ret)))

\* Frame(data, buff, self.format)
NewFrame(s) ==
    [s EXCEPT !.frame = Frame(s.data, s.ret, s.kfill[s.ret], s.mm_format)]

MemoryMap_raw_read(s) == Try(MemoryMap_raw_grab(s), NewFrame)

SetMaps(s) ==
    [s EXCEPT !.mm_buffers = [k \in 1 .. Len(s.bm_buffers) |-> "open"]]

NoteQueued(s) == [s EXCEPT !.queuedAtOpen = Cardinality(KernelOwned(s.kown))]

SetFormat(s, v) == [s EXCEPT !.mm_format = v]

\* buffers = create_buffers(); self.buffers = [mmap_from_buffer(...)]
MemoryMap_open_map(s) ==
    Try(Try(Try(fileno(s), BufferManager_create_buffers),
            LAMBDA x : MapEach(x, 0, Len(x.bm_buffers))),
        SetMaps)

MemoryMap_open(s) ==
    IF s.mm_buffers # NoMaps THEN s
    ELSE Try(Try(Try(MemoryMap_open_map(s), BufferManager_enqueue_buffers),
                 NoteQueued),
             LAMBDA x : Try(get_format(x), LAMBDA y : SetFormat(y, y.fmt)))

RECURSIVE CloseEach(_, _)
CloseEach(s, k) ==
    IF k > Len(s.mm_buffers) THEN s
    ELSE CloseEach([Log(s, "munmap", k - 1, TRUE) EXCEPT
                       !.mm_buffers[k] = "closed"], k + 1)

ClearMaps(s) == [s EXCEPT !.mm_buffers = NoMaps, !.mm_format = NoFormat]

MemoryMap_close(s) ==
    IF ~Truthy(s.mm_buffers, NoMaps) THEN s
    ELSE Try(BufferManager_free_buffers(CloseEach(s, 1)), ClearMaps)

----------------------------------------------------------------------------
(* VideoCapture *)

\* self.buffer = MemoryMap(self)
NewMemoryMap(s) ==
    [s EXCEPT !.buffer = "MemoryMap", !.mm_buffers = NoMaps,
              !.mm_format = NoFormat, !.mm_read = "read",
              !.reader_index = NoIndex,
              !.fr_selector = "None", !.fr_buffer = NoQueue]

VideoCapture_open(s) ==
    IF s.buffer # "None" THEN s
    ELSE Try(MemoryMap_open(NewMemoryMap(s)), stream_on)

DropMemoryMap(s) == [s EXCEPT !.buffer = "None"]

\* a close that frees the buffers before it stops the stream
VideoCapture_close_unmaps_first(s) ==
    IF s.buffer = "None" THEN s
    ELSE Try(Try(MemoryMap_close(s), stream_off), DropMemoryMap)

VideoCapture_close(s) ==
    IF s.buffer = "None" THEN s
    ELSE Try(Try(stream_off(s), MemoryMap_close), DropMemoryMap)

\* select reports the descriptor when a filled buffer waits or when the
\* queue is in an error state
Ready(s) == Hit(s, "DQBUF") \/ ~s.streaming \/ s.kdoneq # <<>>

\* device.io.select((device,), (), (), timeout) on a non-blocking descriptor
Select(s) ==
    IF s.blocking THEN s
    ELSE [Log(s, "select", 0, TRUE) EXCEPT !.readable = Ready(s)]

\* a read that dequeues without waiting for the descriptor
FrameReader_read_no_select(s) == Try(fileno(s), MemoryMap_raw_read)

\* a read that dequeues whatever select has returned
FrameReader_read_ignores_select(s) ==
    Try(Try(fileno(s), Select), MemoryMap_raw_read)

\* FrameReader.read(timeout=None): if not read: return
FrameReader_read(s) ==
    Try(Try(fileno(s), Select),
        LAMBDA x : IF x.readable THEN MemoryMap_raw_read(x) ELSE x)

\* device.io.select((device,), (), ()): no timeout, the result is not used
WaitSelect(s) == Log(s, "select", 0, TRUE)

MemoryMap_wait_read(s) == Try(Try(fileno(s), WaitSelect), MemoryMap_raw_read)

\* Device.is_blocking: os.get_blocking(self.fileno())
is_blocking(s) == Try(fileno(s), LAMBDA x : Log(x, "get_blocking", 0, TRUE))

\* self.read = self.raw_read or self.read = self.wait_read
Bind(s) ==
    [s EXCEPT !.mm_read = IF s.blocking THEN "raw_read" ELSE "wait_read"]

\* self.read() once it is bound
Bound(s) ==
    IF s.mm_read = "raw_read" THEN MemoryMap_raw_read(s)
    ELSE MemoryMap_wait_read(s)

\* a read that chooses its policy at every call
MemoryMap_read_rebinds(s) == Try(Try(is_blocking(s), Bind), Bound)

\* MemoryMap.read: the class method runs until the instance attribute hides it
MemoryMap_read(s) ==
    IF s.mm_read = "read" THEN Try(Try(is_blocking(s), Bind), Bound)
    ELSE Bound(s)

\* the epoll set and the queue made by FrameReader.__aenter__
Register(s) == [s EXCEPT !.fr_selector = "epoll", !.fr_buffer = <<>>]

CheckNonBlocking(s) == IF s.blocking THEN Raise(s, "V4L2Error") ELSE s

FrameReader_aenter(s) == Try(Try(fileno(s), CheckNonBlocking), Register)

Unregister(s) == [s EXCEPT !.fr_selector = "None", !.fr_buffer = NoQueue]

\* self._selector.unregister(self.device.fileno()) comes first
FrameReader_aexit(s) ==
    IF s.fr_selector = "None" THEN Raise(s, "AttributeError")
    ELSE Try(fileno(s), Unregister)

\* a queue that takes the new future without making room for it
Publish_keeps_oldest(q, task) == Append(q, task)

\* if buffer.full(): buffer.get_nowait(); then buffer.put_nowait(task)
Publish(q, task) ==
    Append(IF Len(q) >= max_queue_size THEN Tail(q) ELSE q, task)

\* the future holds the frame or the exception of raw_read
SetResult(s) ==
    [s EXCEPT !.fr_buffer = Publish(@, Future(s.exc, s.frame)),
              !.exc = "none", !.frame = NoFrame,
              !.oplog = IF Len(s.fr_buffer) >= max_queue_size
                        THEN Append(@, Call("warn missed frame", 0, TRUE))
                        ELSE @]

\* a callback that keeps the buffer it dequeued until the frame is awaited
FrameReader_on_event_keeps_buffer(s) ==
    SetResult(Try(Try(QueueReader_enter(s), LAMBDA x : Slice(x, x.ret)),
                  NewFrame))

FrameReader_on_event(s) == SetResult(MemoryMap_raw_read(s))

\* an aread that leaves the future it returns in the queue
FrameReader_aread_keeps_head(s) ==
    [s EXCEPT !.exc = Head(s.fr_buffer).exc,
              !.frame = Head(s.fr_buffer).frame]

\* task = await self._buffer.get(); return await task
FrameReader_aread(s) ==
    [s EXCEPT !.fr_buffer = Tail(@),
              !.exc = Head(s.fr_buffer).exc,
              !.frame = Head(s.fr_buffer).frame]

----------------------------------------------------------------------------
(* EventReader *)

\* ioctl(fd, IOC.DQEVENT, event): ENOENT when no event is pending
ioctl_DQEVENT(s) ==
    IF s.kevq = <<>>
    THEN Raise(Log(s, "DQEVENT", 0, FALSE), "OSError")
    ELSE [Log(s, "DQEVENT", Head(s.kevq), TRUE) EXCEPT
             !.kevq = Tail(@), !.ret = Head(s.kevq)]

deque_event(s) == Try(fileno(s), ioctl_DQEVENT)

\* the epoll set and the queue made by EventReader.__aenter__
RegisterEvents(s) == [s EXCEPT !.er_selector = "epoll", !.er_buffer = <<>>]

EventReader_aenter(s) == Try(Try(fileno(s), CheckNonBlocking), RegisterEvents)

UnregisterEvents(s) == [s EXCEPT !.er_selector = "None", !.er_buffer = NoEvents]

EventReader_aexit(s) ==
    IF s.er_selector = "None" THEN Raise(s, "AttributeError")
    ELSE Try(fileno(s), UnregisterEvents)

\* if buffer.full(): log.debug("missed event"); buffer.popleft()
\* (asyncio.Queue has no popleft); then buffer.put_nowait(task)
PublishEvent(s, task) ==
    IF Len(s.er_buffer) >= event_max_queue_size
    THEN Raise(Log(s, "debug missed event", 0, TRUE), "AttributeError")
    ELSE [s EXCEPT !.er_buffer = Append(@, task)]

\* the exception of deque_event goes into the future, not to the caller
SetEvent(s) == PublishEvent(Raise(s, "none"), EventFuture(s.exc, s.ret))

EventReader_on_event(s) == SetEvent(deque_event(s))

\* task = await self._buffer.get(); return await task
EventReader_aread(s) ==
    [s EXCEPT !.er_buffer = Tail(@), !.exc = Head(s.er_buffer).exc]

----------------------------------------------------------------------------
(* Controls *)

\* str(value)
str(v) ==
    CASE v.t = "int" -> Decimal(v.i)
      [] v.t = "bool" -> IF v.i = 1 THEN "True" ELSE "False"
      [] v.t = "str" -> v.s
      [] OTHER -> "None"

\* int(text) succeeds on the decimal numerals
IsDecimal(x) == \E n \in Ints : Decimal(n) = x

int(x) == CHOOSE n \in Ints : Decimal(n) = x

\* BaseControl.config_name: lower case, parentheses removed, ", " and " "
\* replaced by "_"
RECURSIVE Replace(_, _)
Replace(w, old) ==
    IF Len(w) < Len(old) THEN w
    ELSE IF SubSeq(w, 1, Len(old)) = old
         THEN <<"_">> \o Replace(SubSeq(w, Len(old) + 1, Len(w)), old)
         ELSE <<Head(w)>> \o Replace(Tail(w), old)

config_name(name) ==
    LET res == [k \in 1 .. Len(name) |-> Lower(name[k])]
        bare == SelectSeq(res, LAMBDA c : c \notin {"(", ")"})
    IN  Replace(Replace(bare, <<",", " ">>), <<" ">>)

\* raw.V4L2_CTRL_ID2CLASS(id)
V4L2_CTRL_ID2CLASS(id) == (id \div 16) * 16

\* ctrl_type_map.get(ctrl_type, GenericControl)
ControlKind(c) ==
    CASE c.info.type = "BOOLEAN" -> "BooleanControl"
      [] c.info.type = "INTEGER" -> "IntegerControl"
      [] c.info.type = "MENU" -> "MenuControl"
      [] OTHER -> "GenericControl"

\* iter_read_controls skips the disabled controls; every control starts
\* with clipping=True
Registry(q) ==
    LET found == SelectSeq(q, LAMBDA d : "disabled" \notin d.flags)
    IN  [k \in 1 .. Len(found) |-> [info |-> found[k], clipping |-> TRUE]]

WriteBlockers == {"read_only", "inactive", "disabled", "grabbed"}

is_writeable(c) == c.info.flags \cap WriteBlockers = {}

\* the reasons named by the error of _set_control, as the flags' bits
Reasons(c) ==
    (IF "read_only" \in c.info.flags THEN 4 ELSE 0)
    + (IF "inactive" \in c.info.flags THEN 16 ELSE 0)
    + (IF "disabled" \in c.info.flags THEN 1 ELSE 0)
    + (IF "grabbed" \in c.info.flags THEN 2 ELSE 0)

Clamp(n, lo, hi) == IF n < lo THEN lo ELSE IF n > hi THEN hi ELSE n

Val(s, v) == [s EXCEPT !.val = v]

\* the driver's slot of the control with this id
Slot(s, id) == CHOOSE j \in 1 .. Len(s.kctrl) : s.kctrl[j].id = id

\* ioctl(fd, IOC.G_CTRL, control)
ioctl_G_CTRL(s, k) ==
    IF Hit(s, "G_CTRL")
    THEN Raise(Spend(Log(s, "G_CTRL", s.controls[k].info.id, FALSE)), "OSError")
    ELSE Val(Log(s, "G_CTRL", s.controls[k].info.id, TRUE),
             PyInt(s.kval[Slot(s, s.controls[k].info.id)]))

\* get_control(self.device, self.id): fcntl takes the descriptor from
\* device.fileno()
get_control(s, k) == Try(fileno(s), LAMBDA x : ioctl_G_CTRL(x, k))

\* ioctl(fd, IOC.S_CTRL, control): the driver clamps an integer to the
\* control's range and refuses a menu index outside of it (ERANGE)
ioctl_S_CTRL(s, k) ==
    LET d == s.controls[k].info
        sent == Log(s, "S_CTRL.value", s.val.i, TRUE)
        j == Slot(s, d.id)
    IN  IF Hit(s, "S_CTRL")
           \/ (d.type = "MENU" /\ Clamp(s.val.i, d.minimum, d.maximum) # s.val.i)
        THEN Raise(Spend(Log(sent, "S_CTRL", d.id, FALSE)), "OSError")
        ELSE [Log(sent, "S_CTRL", d.id, TRUE) EXCEPT
                 !.kval[j] = Clamp(s.val.i, d.minimum, d.maximum)]

\* raw.v4l2_control(id, value) takes an integer
set_control(s, k) ==
    IF s.val.t \notin {"int", "bool"} THEN Raise(s, "TypeError")
    ELSE Try(fileno(s), LAMBDA x : ioctl_S_CTRL(x, k))

\* a _set_control that writes whatever the flags are
BaseControl_set_control_unchecked(s, k) == set_control(s, k)

BaseControl_set_control(s, k) ==
    IF ~is_writeable(s.controls[k])
    THEN Raise(Log(s, "not writeable", Reasons(s.controls[k]), FALSE),
               "AttributeError")
    ELSE set_control(s, k)

\* _convert_read of the control's class
convert_read(c, v) ==
    CASE ControlKind(c) = "BooleanControl" -> PyBool(v.i # 0)
      [] ControlKind(c) = "IntegerControl" -> PyInt(v.i)
      [] OTHER -> v

\* int(value) inside try/except
Coerce(s, x) ==
    IF x.t \in {"int", "bool"} THEN Val(s, PyInt(x.i))
    ELSE IF x.t = "str" /\ IsDecimal(x.s) THEN Val(s, PyInt(int(x.s)))
    ELSE Raise(s, "ValueError")

BaseNumericControl_convert_write(s, x) ==
    IF x.t \in {"int", "bool"} THEN Val(s, x) ELSE Coerce(s, x)

\* a conversion that takes every string for a truth value
BooleanControl_convert_write_any_string(s, x) ==
    IF x.t = "bool" THEN Val(s, x)
    ELSE Val(s, PyBool(IF x.t = "str" THEN x.s # "" ELSE x.i # 0))

BooleanControl_convert_write(s, x) ==
    IF x.t = "bool" THEN Val(s, x)
    ELSE IF x.t = "str"
         THEN IF x.s \in {"true", "1", "yes", "on", "enable"}
              THEN Val(s, PyBool(TRUE))
              ELSE IF x.s \in {"false", "0", "no", "off", "disable"}
                   THEN Val(s, PyBool(FALSE))
                   ELSE Raise(s, "ValueError")
         ELSE Val(s, PyBool(x.i # 0))

\* MenuControl._convert_write: int(value)
MenuControl_convert_write(s, x) ==
    IF x.t = "None" THEN Raise(s, "TypeError")
    ELSE IF x.t = "str" /\ ~IsDecimal(x.s) THEN Raise(s, "ValueError")
    ELSE Coerce(s, x)

convert_write(s, k, x) ==
    CASE ControlKind(s.controls[k]) = "BooleanControl" ->
             BooleanControl_convert_write(s, x)
      [] ControlKind(s.controls[k]) = "IntegerControl" ->
             BaseNumericControl_convert_write(s, x)
      [] ControlKind(s.controls[k]) = "MenuControl" ->
             MenuControl_convert_write(s, x)
      [] OTHER -> Val(s, x)

\* a _mangle_write that passes the value on as it is
BaseNumericControl_mangle_write_unclipped(s, k) == s

BaseNumericControl_mangle_write(s, k) ==
    LET c == s.controls[k]
        lo == c.info.minimum
        hi == c.info.maximum
    IN  IF ControlKind(c) # "IntegerControl" THEN s
        ELSE IF s.val.i >= lo /\ s.val.i <= hi THEN s
        ELSE IF c.clipping THEN Val(s, PyInt(Clamp(s.val.i, lo, hi)))
        ELSE Raise(s, "ValueError")

\* BaseMonoControl.value (getter)
BaseMonoControl_value(s, k) ==
    IF "write_only" \in s.controls[k].info.flags THEN Val(s, PyNone)
    ELSE Try(get_control(s, k),
             LAMBDA x : Val(x, convert_read(s.controls[k], x.val)))

\* BaseMonoControl.value (setter)
BaseMonoControl_set_value(s, k, x) ==
    Try(Try(convert_write(s, k, x),
            LAMBDA y : BaseNumericControl_mangle_write(y, k)),
        LAMBDA y : BaseControl_set_control(y, k))

\* self.value = self.default
BaseMonoControl_set_to_default(s, k) ==
    BaseMonoControl_set_value(
        s, k, convert_read(s.controls[k],
                           PyInt(s.controls[k].info.default_value)))

\* Controls.set_to_default: the loop passes over AttributeError only
RECURSIVE DefaultEach(_, _)
DefaultEach(s, k) ==
    IF k > Len(s.controls) THEN s
    ELSE LET r == BaseMonoControl_set_to_default(s, k)
         IN  IF r.exc = "AttributeError" THEN DefaultEach(Raise(r, "none"), k + 1)
             ELSE IF Raised(r) THEN r
             ELSE DefaultEach(r, k + 1)

\* device.controls is None until _init has built the registry
HasControls(s) ==
    IF s.controls = NoControls THEN Raise(s, "AttributeError") ELSE s

Controls_set_to_default(s) == Try(HasControls(s), LAMBDA x : DefaultEach(x, 1))

Controls_set_clipping(s, b) ==
    Try(HasControls(s),
        LAMBDA x : [x EXCEPT !.controls =
                       [k \in 1 .. Len(@) |->
                           IF ControlKind(@[k]) = "IntegerControl"
                           THEN [@[k] EXCEPT !.clipping = b] ELSE @[k]]])

\* the positions of the registry whose id, or else whose config_name, is the key
Matches(q, item) ==
    IF \E k \in 1 .. Len(q) : q[k].info.id = item.id
    THEN {k \in 1 .. Len(q) : q[k].info.id = item.id}
    ELSE {k \in 1 .. Len(q) : item.id = -1
                               /\ config_name(q[k].info.name) = item.name}

\* a lookup by id only
Controls_getitem_by_id(s, item) ==
    IF \E k \in 1 .. Len(s.controls) : s.controls[k].info.id = item.id
    THEN [s EXCEPT !.ret = CHOOSE k \in 1 .. Len(s.controls) :
                               s.controls[k].info.id = item.id]
    ELSE Raise(s, "KeyError")

\* Controls[item]: dict lookup, then __missing__ returns the first control
\* whose config_name is the key
Controls_getitem(s, item) ==
    IF Matches(s.controls, item) = {} THEN Raise(s, "KeyError")
    ELSE [s EXCEPT !.ret = CHOOSE k \in Matches(s.controls, item) :
                               \A j \in Matches(s.controls, item) : k <= j]

\* ButtonControl.push: self._set_control(1)
ButtonControl_push(s, k) == BaseControl_set_control(Val(s, PyInt(1)), k)

\* BaseNumericControl.increase/decrease: self.value += steps * self.step
BaseNumericControl_increase(s, k, steps) ==
    Try(BaseMonoControl_value(s, k),
        LAMBDA y : IF y.val.t = "None" THEN Raise(y, "TypeError")
                   ELSE BaseMonoControl_set_value(y, k, PyInt(y.val.i + steps)))

Controls_used_classes(q) ==
    {V4L2_CTRL_ID2CLASS(q[k].info.id) : k \in 1 .. Len(q)}

\* a with_class that yields every control
Controls_with_class_all(q, control_class) == q

Controls_with_class(q, control_class) ==
    SelectSeq(q, LAMBDA v : V4L2_CTRL_ID2CLASS(v.info.id) = control_class)

----------------------------------------------------------------------------
(* Device *)

closed(s) == s.fobj = "None" \/ ~s.fdOpen

\* self.info = read_info(self.fileno())
read_info(s) ==
    IF Hit(s, "QUERYCAP")
    THEN Raise(Spend(Log(s, "QUERYCAP", 0, FALSE)), "OSError")
    ELSE [Log(s, "QUERYCAP", 0, TRUE) EXCEPT !.info = "Info"]

\* self.controls = Controls.from_device(self)
from_device(s) ==
    IF Hit(s, "controls")
    THEN Raise(Spend(Log(s, "controls", 0, FALSE)), "OSError")
    ELSE [Log(s, "controls", 0, TRUE) EXCEPT !.controls = Registry(s.kctrl)]

\* if self.legacy_controls: reads an attribute that __init__ assigns in its
\* last statement
LegacyControls(s) ==
    IF s.legacy_controls = "unset" THEN Raise(s, "AttributeError") ELSE s

Device_init(s) ==
    Try(Try(Try(fileno(s), read_info), LegacyControls), from_device)

\* Device.__init__ given an open file object, from `self._fobj =
\* name_or_file` on: the nesting level is raised and _init runs before
\* log, filename, index and legacy_controls are assigned
Device_new(s) ==
    Device_init([s EXCEPT !.fobj = "file", !.context_level = @ + 1,
                          !.legacy_controls = "unset"])

\* self._fobj = self.io.open(self.filename, self._read_write): IO.open sets
\* O_NONBLOCK, GeventIO.open makes a (non-blocking) gevent file object and
\* a policy made of fopen(blocking=True) leaves the descriptor blocking
io_open(s) ==
    IF Hit(s, "io.open")
    THEN Raise(Spend(Log(s, "io.open", 0, FALSE)), "OSError")
    ELSE [Log(s, "io.open", 0, TRUE) EXCEPT !.fobj = "file", !.fdOpen = TRUE]

Device_open_body(s) == IF s.fobj # "None" THEN s ELSE Try(io_open(s), Device_init)

Device_open(s) == Device_open_body(Log(s, "open()", 0, TRUE))

\* self._fobj.close(); self._fobj = None
fobj_close(s) ==
    [KernelRelease(Log(s, "fobj.close", 0, TRUE)) EXCEPT
        !.fdOpen = FALSE, !.fobj = "None",
        !.fr_selector = IF @ = "epoll" THEN "stale" ELSE @,
        !.er_selector = IF @ = "epoll" THEN "stale" ELSE @]

\* close that forgets the descriptor without closing it
Device_close_keeps_fd(s) ==
    IF closed(s) THEN s
    ELSE IF s.info = "None" THEN Raise(s, "AttributeError")
    ELSE [s EXCEPT !.fobj = "None"]

\* the log line of close reads self.info.card before the descriptor is closed
Device_close_body(s) ==
    IF closed(s) THEN s
    ELSE IF s.info = "None" THEN Raise(s, "AttributeError")
    ELSE fobj_close(s)

Device_close(s) == Device_close_body(Log(s, "close()", 0, TRUE))

Level(s, d) == [s EXCEPT !.context_level = @ + d]

ReentrantContextManager_enter(s) ==
    Try(IF s.context_level = 0 THEN Device_open(s) ELSE s,
        LAMBDA x : Level(x, 1))

CloseAtZero(s) == IF s.context_level = 0 THEN Device_close(s) ELSE s

\* an exit that closes at every level
ReentrantContextManager_exit_always_closes(s) == Device_close(Level(s, -1))

ReentrantContextManager_exit(s) == CloseAtZero(Level(s, -1))

----------------------------------------------------------------------------
(* ConfigManager (src/v4l2py/config.py) *)

Item(name, value) == [name |-> name, value |-> value]

\* section[name] = value: a new option goes last, a known one is replaced
Put(items, name, value) ==
    IF \E n \in 1 .. Len(items) : items[n].name = name
    THEN [n \in 1 .. Len(items) |->
             IF items[n].name = name THEN Item(name, value) ELSE items[n]]
    ELSE Append(items, Item(name, value))

\* str.lower() of the texts str(value) yields
lower(x) ==
    CASE x = "True" -> "true"
      [] x = "False" -> "false"
      [] x = "None" -> "none"
      [] OTHER -> x

ConfigManager_reset(s) ==
    [s EXCEPT !.cm_config = Config({}, <<>>), !.cm_filename = "None"]

has_config(s) == s.cm_config # NoConfig /\ s.cm_config.sections # {}

\* self.config["device"] = {...}: the dict reads self.device.info
DeviceSection(s) ==
    IF s.info = "None" THEN Raise(s, "AttributeError")
    ELSE [s EXCEPT !.cm_config.sections = @ \cup {"device"}]

\* self.config["controls"] = {}
ControlsSection(s) ==
    [s EXCEPT !.cm_config.sections = @ \cup {"controls"},
              !.cm_config.controls = <<>>]

\* self.config["controls"][c.config_name] = str(c.value)
RECURSIVE AcquireEach(_, _)
AcquireEach(s, k) ==
    IF k > Len(s.controls) THEN s
    ELSE Try(BaseMonoControl_value(s, k),
             LAMBDA x : AcquireEach(
                 [x EXCEPT !.cm_config.controls =
                     Put(@, config_name(x.controls[k].info.name), str(x.val))],
                 k + 1))

ConfigManager_acquire(s) ==
    Try(Try(Try(DeviceSection(IF has_config(s) THEN s
                              ELSE ConfigManager_reset(s)),
                ControlsSection),
            HasControls),
        LAMBDA x : AcquireEach(x, 1))

\* self.config.write(configfile)
WriteFile(s) == [s EXCEPT !.file = s.cm_config]

ConfigManager_save(s) ==
    IF closed(s) THEN Raise(s, "V4L2Error")
    ELSE Try(IF has_config(s) THEN s ELSE ConfigManager_acquire(s), WriteFile)

\* ConfigParser.read adds the file's sections and options to those the
\* parser holds
RECURSIVE PutEach(_, _, _)
PutEach(items, new, n) ==
    IF n > Len(new) THEN items
    ELSE PutEach(Put(items, new[n].name, new[n].value), new, n + 1)

\* res = self.config.read((filename,)): a file that cannot be opened is
\* passed over and leaves res empty; self.filename = filename.resolve()
ReadFile(s) ==
    IF Hit(s, "config.read") THEN Raise(Spend(s), "RuntimeError")
    ELSE [s EXCEPT !.cm_config =
                       Config(@.sections \cup s.file.sections,
                              PutEach(@.controls, s.file.controls, 1)),
                   !.cm_filename = "path"]

\* a load that reads the file into whatever the manager holds
ConfigManager_load_unreset(s) ==
    IF s.file = NoFile THEN Raise(s, "RuntimeError")
    ELSE IF closed(s) THEN Raise(s, "V4L2Error")
    ELSE ReadFile(s)

ConfigManager_load(s) ==
    IF s.file = NoFile THEN Raise(s, "RuntimeError")
    ELSE IF closed(s) THEN Raise(s, "V4L2Error")
    ELSE ReadFile(ConfigManager_reset(s))

\* self.device.controls.named_keys(): Controls defines no named_keys, so
\* __getattr__ looks the name up as a key and raises AttributeError; a
\* control of that config_name would be returned, and is not callable
NamedKeys(s) ==
    IF Matches(s.controls, NameKey(<<"n", "a", "m", "e", "d", "_", "k", "e",
                                    "y", "s">>)) = {}
    THEN Raise(s, "AttributeError")
    ELSE Raise(s, "TypeError")

\* the statements of validate after the call of named_keys are never
\* reached, whatever pedantic is
ConfigManager_validate(s, pedantic) ==
    IF s.cm_filename = "None" THEN Raise(s, "RuntimeError")
    ELSE IF "controls" \notin s.cm_config.sections
    THEN Raise(s, "ConfigurationError")
    ELSE Try(HasControls(s), NamedKeys)

\* self.device.controls[ctrl]
ControlOf(s, n) ==
    IF s.controls = NoControls THEN Raise(s, "TypeError")
    ELSE Controls_getitem(s, NameKey(s.cm_config.controls[n].name))

\* the body of apply's inner loop for the n-th item of [controls]
ApplyItem(s, n) ==
    Try(ControlOf(s, n),
        LAMBDA x :
            IF ~is_writeable(x.controls[x.ret])
            THEN Log(x, "skipped", x.controls[x.ret].info.id, TRUE)
            ELSE Try(BaseMonoControl_value(x, x.ret),
                     LAMBDA y : BaseMonoControl_set_value(
                                    y, x.ret,
                                    PyStr(x.cm_config.controls[n].value))))

\* for cycle in range(1, cycles + 1): for ctrl, value in items: ...
RECURSIVE ApplyEach(_, _, _)
ApplyEach(s, n, cycles) ==
    IF n > cycles * Len(s.cm_config.controls) THEN s
    ELSE Try(ApplyItem(s, ((n - 1) % Len(s.cm_config.controls)) + 1),
             LAMBDA x : ApplyEach(x, n + 1, cycles))

\* self.config.items("controls")
Items(s) ==
    IF "controls" \notin s.cm_config.sections
    THEN Raise(s, "NoSectionError") ELSE s

\* an apply that makes one pass whatever cycles is
ConfigManager_apply_one_pass(s, cycles) ==
    IF s.cm_filename = "None" THEN Raise(s, "RuntimeError")
    ELSE IF closed(s) THEN Raise(s, "V4L2Error")
    ELSE Try(Items(s), LAMBDA x : ApplyEach(x, 1, 1))

ConfigManager_apply(s, cycles) ==
    IF s.cm_filename = "None" THEN Raise(s, "RuntimeError")
    ELSE IF closed(s) THEN Raise(s, "V4L2Error")
    ELSE Try(Items(s), LAMBDA x : ApplyEach(x, 1, cycles))

\* the body of verify's loop for the n-th item of [controls]
VerifyItem(s, n) ==
    Try(ControlOf(s, n),
        LAMBDA x :
            IF "write_only" \in x.controls[x.ret].info.flags THEN x
            ELSE Try(BaseMonoControl_value(x, x.ret),
                     LAMBDA y :
                         IF lower(str(y.val))
                               = lower(x.cm_config.controls[n].value)
                         THEN y ELSE Raise(y, "DeviceStateError")))

RECURSIVE VerifyEach(_, _)
VerifyEach(s, n) ==
    IF n > Len(s.cm_config.controls) THEN s
    ELSE Try(VerifyItem(s, n), LAMBDA x : VerifyEach(x, n + 1))

ConfigManager_verify(s) ==
    IF s.cm_filename = "None" THEN Raise(s, "RuntimeError")
    ELSE IF closed(s) THEN Raise(s, "V4L2Error")
    ELSE Try(Items(s), LAMBDA x : VerifyEach(x, 1))

\* an ioctl that changes nothing this model keeps
ioctl_plain(s, c) ==
    IF Hit(s, c) THEN Raise(Spend(Log(s, c, 0, FALSE)), "OSError")
    ELSE Log(s, c, 0, TRUE)

\* the methods of Device that pass self.fileno() to a function of the module
DeviceMethods ==
    {"get_format", "set_format", "get_fps", "set_fps", "get_selection",
     "set_selection", "get_priority", "set_priority", "stream_on",
     "stream_off", "request_buffers", "free_buffers", "query_buffer",
     "enqueue_buffer", "dequeue_buffer", "subscribe_event",
     "unsubscribe_event", "deque_event"}

Device_call(s, m) ==
    CASE m = "get_format" -> get_format(s)
      [] m = "set_format" -> set_format(s, 2)
      [] m = "stream_on" -> stream_on(s)
      [] m = "stream_off" -> stream_off(s)
      [] m = "request_buffers" -> request_buffers(s, Size)
      [] m = "free_buffers" -> free_buffers(s)
      [] m = "query_buffer" -> query_buffer(s, 0)
      [] m = "enqueue_buffer" -> enqueue_buffer(s, 0)
      [] m = "dequeue_buffer" -> dequeue_buffer(s)
      [] m = "deque_event" -> deque_event(s)
      [] m = "get_fps" -> Try(fileno(s), LAMBDA x : ioctl_plain(x, "G_PARM"))
      [] m = "set_fps" -> Try(fileno(s), LAMBDA x : ioctl_plain(x, "S_PARM"))
      [] m = "get_selection" ->
             Try(fileno(s), LAMBDA x : ioctl_plain(x, "G_SELECTION"))
      [] m = "set_selection" ->
             Try(fileno(s), LAMBDA x : ioctl_plain(x, "S_SELECTION"))
      [] m = "get_priority" ->
             Try(fileno(s), LAMBDA x : ioctl_plain(x, "G_PRIORITY"))
      [] m = "set_priority" ->
             Try(fileno(s), LAMBDA x : ioctl_plain(x, "S_PRIORITY"))
      [] m = "subscribe_event" ->
             Try(fileno(s), LAMBDA x : ioctl_plain(x, "SUBSCRIBE_EVENT"))
      [] OTHER ->
             Try(fileno(s), LAMBDA x : ioctl_plain(x, "UNSUBSCRIBE_EVENT"))

----------------------------------------------------------------------------
(* Initial states: a Device built from a path (closed), with the io       *)
(* policy it was given                                                     *)

\* nothing has run yet: no session, no reader, an idle kernel, a new
\* ConfigManager
Fresh ==
    /\ kval = [k \in 1 .. Len(kctrl) |-> kctrl[k].default_value]
    /\ cm_config = NoConfig /\ cm_filename = "None"
    /\ target = 0 /\ arg = PyNone /\ key = NoKey
    /\ buffer = "None" /\ bm_buffers = NoBuffers /\ mm_buffers = NoMaps
    /\ mm_format = NoFormat /\ mm_read = "read" /\ reader_index = NoIndex
    /\ kseq = 0 /\ kfill = [i \in KIdx |-> 0] /\ kfmt = 1
    /\ frame = NoFrame /\ delivered = 0
    /\ fr_selector = "None" /\ fr_buffer = NoQueue
    /\ er_selector = "None" /\ er_buffer = NoEvents
    /\ kevq = <<>> /\ evseq = 0
    /\ kcount = 0 /\ kown = [i \in KIdx |-> "none"]
    /\ kinq = <<>> /\ kdoneq = <<>> /\ streaming = FALSE
    /\ oplog = <<>> /\ exc = "none" /\ peakUser = 0
    /\ devScopes = 0 /\ vcScope = FALSE /\ nframes = 0 /\ queuedAtOpen = 0
    /\ vc_streamon = FALSE /\ envFault = FALSE

InitDevice ==
    /\ name_or_file = "path" /\ lastOp = "Device(path)"
    /\ blocking \in BOOLEAN
    /\ fobj = "None" /\ fdOpen = FALSE
    /\ context_level = 0 /\ info = "None"
    /\ controls = NoControls
    /\ Fresh

\* no helper function has been called
NoCalls ==
    /\ path = <<>> /\ number = <<>>
    /\ kenum = <<>> /\ enum = NoEnum /\ yielded = <<>>

\* a driver without controls and no configuration file
Init == kctrl = <<>> /\ file = NoFile /\ InitDevice /\ NoCalls

----------------------------------------------------------------------------
(* Caller operations on the Device *)

\* device.open()
DevOpen ==
    \E f \in OpenFaults :
        /\ Commit(Device_open(St(f, 0)), "Device.open")
        /\ UNCHANGED <<devScopes, vcScope, nframes>>

\* device.close()
DevClose ==
    /\ Commit(Device_close(St("none", 0)), "Device.close")
    /\ UNCHANGED <<devScopes, vcScope, nframes>>

\* with device: (entering)
DevEnter ==
    \E f \in OpenFaults :
        LET s == ReentrantContextManager_enter(St(f, 0))
        IN  /\ devScopes < MaxDepth
            /\ Commit(s, "Device.__enter__")
            /\ devScopes' = IF Raised(s) THEN devScopes ELSE devScopes + 1
            /\ UNCHANGED <<vcScope, nframes>>

\* with device: (leaving)
DevExit ==
    /\ devScopes > 0
    /\ Commit(ReentrantContextManager_exit(St("none", 0)), "Device.__exit__")
    /\ devScopes' = devScopes - 1
    /\ UNCHANGED <<vcScope, nframes>>

----------------------------------------------------------------------------
(* Caller operations on the capture session *)

\* with VideoCapture(device): (entering), by the caller or by the generator
\* of Device.__iter__ / __aiter__ at its first step
VCEnter ==
    \E f \in StartFaults, g \in 0 .. MaxGrant :
        LET s == [VideoCapture_open(St(f, g)) EXCEPT !.delivered = 0]
        IN  /\ ~vcScope
            /\ Commit(s, "VideoCapture.__enter__")
            /\ vcScope' = ~Raised(s)
            /\ nframes' = 0
            /\ UNCHANGED devScopes

\* with VideoCapture(device): (leaving), also when the body raised or the
\* generator of Device.__iter__ / __aiter__ is closed
VCExit ==
    \E f \in StopFaults :
        /\ vcScope
        /\ Commit([VideoCapture_close(St(f, 0)) EXCEPT !.delivered = 0],
                  "VideoCapture.__exit__")
        /\ vcScope' = FALSE
        /\ UNCHANGED <<devScopes, nframes>>

\* a read returns (or raises) only once the descriptor is readable, a
\* buffer is filled or the queue is in an error state; until then the
\* blocking DQBUF or the select of the io policy waits
Readable(f) ==
    \/ f # "none"
    \/ fobj = "None" \/ ~fdOpen
    \/ ~streaming
    \/ kdoneq # <<>>

\* next(iter(capture)): MemoryMap.__iter__ yields frame_reader.read()
Read ==
    \E f \in ReadFaults :
        LET s == FrameReader_read(St(f, 0))
        IN  /\ vcScope
            /\ fr_selector = "None"
            /\ nframes < MaxFrames
            /\ Readable(f)
            /\ Commit(s, "read")
            /\ nframes' = IF Raised(s) THEN nframes ELSE nframes + 1
            /\ UNCHANGED <<devScopes, vcScope>>

\* capture.buffer.frame_reader.read(timeout): a blocking DQBUF waits whatever
\* the timeout is; select returns when the descriptor is readable or the
\* timeout has passed
ReadTimeout ==
    \E f \in ReadFaults :
        LET s == FrameReader_read(St(f, 0))
        IN  /\ vcScope
            /\ fr_selector = "None"
            /\ nframes < MaxFrames
            /\ blocking => Readable(f)
            /\ Commit(s, "read(timeout)")
            /\ nframes' = IF Raised(s) \/ s.frame = NoFrame THEN nframes
                          ELSE nframes + 1
            /\ UNCHANGED <<devScopes, vcScope>>

\* capture.buffer.read()
MemoryMapRead ==
    \E f \in ReadFaults :
        LET s == MemoryMap_read(St(f, 0))
        IN  /\ vcScope
            /\ buffer # "None"
            /\ fr_selector = "None"
            /\ nframes < MaxFrames
            /\ Readable(f)
            /\ Commit(s, "MemoryMap.read")
            /\ nframes' = IF Raised(s) THEN nframes ELSE nframes + 1
            /\ UNCHANGED <<devScopes, vcScope>>

\* capture.set_format(width, height, pixel_format)
DevSetFormat ==
    \E f \in {"none", "S_FMT"}, v \in Formats :
        /\ Commit(set_format(St(f, 0), v), "set_format")
        /\ UNCHANGED <<devScopes, vcScope, nframes>>

\* async for frame in capture: MemoryMap.__aiter__ enters the frame reader
AEnter ==
    LET s == FrameReader_aenter(St("none", 0))
    IN  /\ vcScope
        /\ buffer # "None"
        /\ fr_selector = "None"
        /\ nframes = 0
        /\ Commit(s, "FrameReader.__aenter__")
        /\ UNCHANGED <<devScopes, vcScope, nframes>>

\* the async iteration is closed or cancelled: MemoryMap.__aiter__ leaves
\* `async with self.frame_reader`
AExit ==
    /\ fr_selector # "None"
    /\ Commit(FrameReader_aexit(St("none", 0)), "FrameReader.__aexit__")
    /\ UNCHANGED <<devScopes, vcScope, nframes>>

\* the event loop calls _on_event when the epoll set reports the device
OnEvent ==
    \E f \in ReadFaults :
        /\ fr_selector = "epoll"
        /\ fdOpen
        /\ Readable(f)
        /\ Commit(FrameReader_on_event(St(f, 0)), "FrameReader._on_event")
        /\ UNCHANGED <<devScopes, vcScope, nframes>>

\* yield await self.frame_reader.aread()
ARead ==
    LET s == FrameReader_aread(St("none", 0))
    IN  /\ fr_selector # "None"
        /\ fr_buffer # NoQueue /\ fr_buffer # <<>>
        /\ nframes < MaxFrames
        /\ Commit(s, "aread")
        /\ nframes' = IF Raised(s) THEN nframes ELSE nframes + 1
        /\ UNCHANGED <<devScopes, vcScope>>

----------------------------------------------------------------------------
(* The kernel fills the oldest queued buffer while streaming *)

KernelFill ==
    /\ streaming
    /\ kinq # <<>>
    /\ kseq < MaxSeq
    /\ kseq' = kseq + 1
    /\ kfill' = [kfill EXCEPT ![Head(kinq)] = kseq + 1]
    /\ kown' = [kown EXCEPT ![Head(kinq)] = "done"]
    /\ kdoneq' = Append(kdoneq, Head(kinq))
    /\ kinq' = Tail(kinq)
    /\ UNCHANGED <<name_or_file, fobj, blocking, fdOpen, context_level, info, buffer,
                   bm_buffers, mm_buffers, mm_format, mm_read, reader_index,
                   kfmt, frame, delivered, er_selector, er_buffer, kevq, evseq,
                   fr_selector, fr_buffer, kcount, streaming, oplog, lastOp, exc, peakUser, devScopes,
                   vcScope, nframes, queuedAtOpen, vc_streamon, kctrl, kval,
                   controls, cm_config, cm_filename, file, target, arg, key,
                   path, number, kenum, enum, yielded, envFault>>

----------------------------------------------------------------------------
(* The caller drives the BufferManager and the MemoryMap directly *)

\* capture.create_buffers(Memory.MMAP)
DirectCreateBuffers ==
    \E f \in {"none", "REQBUFS", "QUERYBUF"}, g \in 0 .. MaxGrant :
        /\ Commit(BufferManager_create_buffers(St(f, g)),
                  "BufferManager.create_buffers")
        /\ UNCHANGED <<devScopes, vcScope, nframes>>

\* capture.free_buffers(Memory.MMAP)
DirectFreeBuffers ==
    \E f \in {"none", "REQBUFS0"} :
        /\ Commit(BufferManager_free_buffers(St(f, 0)),
                  "BufferManager.free_buffers")
        /\ UNCHANGED <<devScopes, vcScope, nframes>>

\* capture.buffer.close()
DirectMemoryMapClose ==
    \E f \in {"none", "REQBUFS0"} :
        /\ buffer # "None"
        /\ Commit(MemoryMap_close(St(f, 0)), "MemoryMap.close")
        /\ UNCHANGED <<devScopes, vcScope, nframes>>

----------------------------------------------------------------------------
(* The caller reads V4L2 events with the async event reader *)

\* async with EventReader(device): (entering)
EvEnter ==
    /\ er_selector = "None"
    /\ Commit(EventReader_aenter(St("none", 0)), "EventReader.__aenter__")
    /\ UNCHANGED <<devScopes, vcScope, nframes>>

\* async with EventReader(device): (leaving)
EvExit ==
    /\ er_selector # "None"
    /\ Commit(EventReader_aexit(St("none", 0)), "EventReader.__aexit__")
    /\ UNCHANGED <<devScopes, vcScope, nframes>>

\* the driver raises an event on the open descriptor
KernelEvent ==
    /\ fdOpen
    /\ Len(kevq) < MaxPending
    /\ evseq < MaxEvents
    /\ evseq' = evseq + 1
    /\ kevq' = Append(kevq, evseq + 1)
    /\ UNCHANGED <<name_or_file, fobj, blocking, fdOpen, context_level, info,
                   buffer, bm_buffers, mm_buffers, mm_format, mm_read,
                   reader_index, fr_selector, fr_buffer, er_selector,
                   er_buffer, kcount, kown, kinq, kdoneq, streaming, kseq,
                   kfill, kfmt, frame, delivered, oplog, lastOp, exc,
                   peakUser, devScopes, vcScope, nframes, queuedAtOpen,
                   vc_streamon, kctrl, kval, controls, cm_config,
                   cm_filename, file, target, arg, key, path, number,
                   kenum, enum, yielded, envFault>>

\* the event loop calls _on_event when the epoll set reports an event
EvOnEvent ==
    /\ er_selector = "epoll"
    /\ fdOpen
    /\ kevq # <<>>
    /\ Commit(EventReader_on_event(St("none", 0)), "EventReader._on_event")
    /\ UNCHANGED <<devScopes, vcScope, nframes>>

\* await reader.aread()
EvARead ==
    /\ er_selector # "None"
    /\ er_buffer # NoEvents /\ er_buffer # <<>>
    /\ Commit(EventReader_aread(St("none", 0)), "EventReader.aread")
    /\ UNCHANGED <<devScopes, vcScope, nframes>>

----------------------------------------------------------------------------
(* Caller operations on the controls *)

\* the values a caller assigns to a control: integers, truth values, None
\* and strings, the words of a truth value going to the Boolean controls
Values(c) ==
    {PyInt(n) : n \in Ints} \cup {PyBool(b) : b \in BOOLEAN} \cup {PyNone}
    \cup {PyStr(x) : x \in {"2", "x"}}
    \cup IF ControlKind(c) # "BooleanControl" THEN {}
         ELSE {PyStr(x) : x \in {"true", "1", "yes", "on", "enable", "false",
                                 "0", "no", "off", "disable", "True", ""}}

\* the keys a caller looks up: ids, config names and display names
Keys ==
    {IdKey(id) : id \in {1, 2, 3, 17, 18, 19, 20}}
    \cup {NameKey(config_name(d.name)) : d \in Catalogue}
    \cup {NameKey(d.name) : d \in Catalogue}

Addressed(s, k, x) == [s EXCEPT !.target = k, !.arg = x]

\* device.controls[id].value = x
CtlWrite ==
    \E f \in {"none", "S_CTRL"}, k \in 1 .. MaxControls :
        /\ controls # NoControls
        /\ k <= Len(controls)
        /\ \E x \in Values(controls[k]) :
               Commit(BaseMonoControl_set_value(Addressed(St(f, 0), k, x), k, x),
                      "control.value=")
        /\ UNCHANGED <<devScopes, vcScope, nframes>>

\* device.controls[id].set_to_default()
CtlDefault ==
    \E f \in ControlFaults, k \in 1 .. MaxControls :
        /\ controls # NoControls
        /\ k <= Len(controls)
        /\ Commit(BaseMonoControl_set_to_default(Addressed(St(f, 0), k, PyNone), k),
                  "control.set_to_default")
        /\ UNCHANGED <<devScopes, vcScope, nframes>>

\* device.controls[id].increase(steps), decrease(steps)
CtlIncrease ==
    \E f \in ControlFaults, k \in 1 .. MaxControls, steps \in {-1, 1} :
        /\ controls # NoControls
        /\ k <= Len(controls)
        /\ ControlKind(controls[k]) = "IntegerControl"
        /\ Commit(BaseNumericControl_increase(
                      Addressed(St(f, 0), k, PyInt(steps)), k, steps),
                  "control.increase")
        /\ UNCHANGED <<devScopes, vcScope, nframes>>

\* ButtonControl(device, info).push() on the descriptor of a control
CtlPush ==
    \E f \in {"none", "S_CTRL"}, k \in 1 .. MaxControls :
        /\ controls # NoControls
        /\ k <= Len(controls)
        /\ Commit(ButtonControl_push(Addressed(St(f, 0), k, PyInt(1)), k),
                  "control.push")
        /\ UNCHANGED <<devScopes, vcScope, nframes>>

\* device.controls.set_clipping(b)
CtlSetClipping ==
    \E b \in BOOLEAN :
        /\ Commit(Controls_set_clipping(Addressed(St("none", 0), 0, PyBool(b)), b),
                  "controls.set_clipping")
        /\ UNCHANGED <<devScopes, vcScope, nframes>>

\* device.controls.set_to_default()
CtlReset ==
    \E f \in ControlFaults :
        /\ Commit(Controls_set_to_default(St(f, 0)), "controls.set_to_default")
        /\ UNCHANGED <<devScopes, vcScope, nframes>>

\* for c in controls.used_classes(): list(controls.with_class(c))
RECURSIVE GroupEach(_, _)
GroupEach(s, classes) ==
    IF classes = {} THEN s
    ELSE LET c == CHOOSE c \in classes : \A d \in classes : c <= d
             members == Controls_with_class(s.controls, c)
             listed == [n \in 1 .. Len(members) |->
                           Call("with_class", members[n].info.id, TRUE)]
         IN  GroupEach([Log(s, "used_class", c, TRUE) EXCEPT
                           !.oplog = @ \o listed],
                       classes \ {c})

CtlClasses ==
    /\ controls # NoControls
    /\ Commit(GroupEach(St("none", 0), Controls_used_classes(controls)),
              "controls.used_classes")
    /\ UNCHANGED <<devScopes, vcScope, nframes>>

\* the control a lookup returned becomes the one the caller addresses
Found(s) == IF Raised(s) THEN s ELSE [s EXCEPT !.target = s.ret]

\* device.controls[key]
CtlLookup ==
    \E k \in Keys :
        /\ controls # NoControls
        /\ Commit(Found(Controls_getitem([St("none", 0) EXCEPT !.key = k], k)),
                  "controls[key]")
        /\ UNCHANGED <<devScopes, vcScope, nframes>>

----------------------------------------------------------------------------
(* Caller operations on the ConfigManager and on the closed device *)

\* device.<method>(...)
DevCall ==
    \E m \in DeviceMethods, f \in {"none", "G_PARM"} :
        /\ Commit(Device_call(St(f, Size), m), m)
        /\ UNCHANGED <<devScopes, vcScope, nframes>>

CfgAcquire ==
    \E f \in {"none", "G_CTRL"} :
        /\ Commit(ConfigManager_acquire(St(f, 0)), "ConfigManager.acquire")
        /\ UNCHANGED <<devScopes, vcScope, nframes>>

CfgSave ==
    \E f \in {"none", "G_CTRL"} :
        /\ Commit(ConfigManager_save(St(f, 0)), "ConfigManager.save")
        /\ UNCHANGED <<devScopes, vcScope, nframes>>

CfgLoad ==
    \E f \in {"none", "config.read"} :
        /\ Commit(ConfigManager_load(St(f, 0)), "ConfigManager.load")
        /\ UNCHANGED <<devScopes, vcScope, nframes>>

\* manager.reset()
CfgReset ==
    /\ Commit(ConfigManager_reset(St("none", 0)), "ConfigManager.reset")
    /\ UNCHANGED <<devScopes, vcScope, nframes>>

CfgValidate ==
    \E pedantic \in BOOLEAN :
        /\ Commit(ConfigManager_validate(Addressed(St("none", 0), 0,
                                                   PyBool(pedantic)),
                                         pedantic),
                  "ConfigManager.validate")
        /\ UNCHANGED <<devScopes, vcScope, nframes>>

CfgApply ==
    \E f \in ControlFaults, cycles \in 1 .. MaxCycles :
        /\ Commit(ConfigManager_apply(Addressed(St(f, 0), 0, PyInt(cycles)),
                                      cycles),
                  "ConfigManager.apply")
        /\ UNCHANGED <<devScopes, vcScope, nframes>>

CfgVerify ==
    \E f \in {"none", "G_CTRL"} :
        /\ Commit(ConfigManager_verify(St(f, 0)), "ConfigManager.verify")
        /\ UNCHANGED <<devScopes, vcScope, nframes>>

----------------------------------------------------------------------------
(* Specifications *)

Next ==
    \/ DevOpen
    \/ DevClose
    \/ DevEnter
    \/ DevExit
    \/ VCEnter
    \/ VCExit
    \/ Read
    \/ AEnter
    \/ AExit
    \/ OnEvent
    \/ ARead
    \/ KernelFill

Spec == Init /\ [][Next]_vars

\* the caller uses open()/close() on the device and, besides the session's
\* scope and readers, the methods the session inherits from BufferManager
NextDirect ==
    \/ DevOpen
    \/ DevClose
    \/ VCEnter
    \/ VCExit
    \/ Read
    \/ AEnter
    \/ AExit
    \/ OnEvent
    \/ ARead
    \/ KernelFill
    \/ DirectCreateBuffers
    \/ DirectFreeBuffers
    \/ DirectMemoryMapClose

SpecDirect == Init /\ [][NextDirect]_vars

\* the caller sets the format and reads with the synchronous readers
NextReaders ==
    \/ DevOpen
    \/ DevClose
    \/ DevSetFormat
    \/ VCEnter
    \/ VCExit
    \/ Read
    \/ ReadTimeout
    \/ MemoryMapRead
    \/ KernelFill

SpecReaders == Init /\ [][NextReaders]_vars

\* the caller opens and closes the device and reads its events
NextEvents ==
    \/ DevOpen
    \/ DevClose
    \/ EvEnter
    \/ EvExit
    \/ KernelEvent
    \/ EvOnEvent
    \/ EvARead

SpecEvents == Init /\ [][NextEvents]_vars

\* a driver with controls
InitControls ==
    /\ kctrl \in KernelControls /\ file = NoFile /\ InitDevice /\ ~blocking
    /\ NoCalls

\* the caller opens and closes the device and works on its controls
NextControls ==
    \/ DevOpen
    \/ CtlWrite
    \/ CtlDefault
    \/ CtlIncrease
    \/ CtlPush
    \/ CtlSetClipping
    \/ CtlReset
    \/ CtlLookup
    \/ CtlClasses

SpecControls == InitControls /\ [][NextControls]_vars

\* a file without a [controls] section
Foreign == Config({"device"}, <<>>)

\* a driver with controls, and a configuration file of other origin or none
InitConfig ==
    /\ kctrl \in KernelControls
    /\ file \in {NoFile, Foreign}
    /\ InitDevice /\ NoCalls
    /\ ~blocking

\* the caller opens and closes the device, changes a control and works
\* with a ConfigManager of the device
NextConfig ==
    \/ DevOpen
    \/ DevClose
    \/ CtlIncrease
    \/ CfgAcquire
    \/ CfgSave
    \/ CfgLoad
    \/ CfgValidate
    \/ CfgApply
    \/ CfgVerify

SpecConfig == InitConfig /\ [][NextConfig]_vars

\* a driver with one control
InitClosed ==
    /\ kctrl = <<Ctrl(1, <<"A", " ", "b">>, "INTEGER", {}, 0, 2, 1)>>
    /\ file \in {NoFile, Foreign}
    /\ InitDevice /\ NoCalls
    /\ ~blocking

\* the caller opens and closes the device and calls the methods of the
\* device and of its ConfigManager in either state
NextClosed ==
    \/ DevOpen
    \/ DevClose
    \/ DevCall
    \/ CfgSave
    \/ CfgLoad
    \/ CfgApply
    \/ CfgVerify

SpecClosed == InitClosed /\ [][NextClosed]_vars

\* a file without sections
Empty == Config({}, <<>>)

\* a driver with one control, and a file of other origin, an empty one or
\* none
InitLoad ==
    /\ kctrl = <<Ctrl(1, <<"A", " ", "b">>, "INTEGER", {}, 0, 2, 1)>>
    /\ file \in {NoFile, Foreign, Empty}
    /\ InitDevice /\ NoCalls
    /\ ~blocking

\* the caller opens and closes the device and calls the methods of its
\* ConfigManager in any order
NextLoad ==
    \/ DevOpen
    \/ DevClose
    \/ CtlIncrease
    \/ CfgReset
    \/ CfgAcquire
    \/ CfgSave
    \/ CfgLoad
    \/ CfgValidate
    \/ CfgApply
    \/ CfgVerify

SpecLoad == InitLoad /\ [][NextLoad]_vars

----------------------------------------------------------------------------
(* Properties *)

Issued(log, c) == \E k \in 1 .. Len(log) : log[k].c = c /\ log[k].ok

\* Device.closed
DeviceClosed == fobj = "None" \/ ~fdOpen

\* the step is the library operation op (a step of the kernel alone keeps
\* lastOp and is the only one that lengthens kdoneq)
Did(op) == lastOp' = op /\ Len(kdoneq') <= Len(kdoneq)

\* C3: the device reports closed exactly when it holds no open descriptor;
\* built from a path it is closed with info unset; an open() that acquires
\* the descriptor and returns leaves it not closed with info set; a close()
\* that returns leaves it closed with the descriptor released.
LifecycleInvariant ==
    /\ DeviceClosed <=> ~fdOpen
    /\ lastOp = "Device(path)" => DeviceClosed /\ info = "None"
    /\ (lastOp = "Device.open" /\ exc = "none" /\ Issued(oplog, "io.open"))
           => ~DeviceClosed /\ info = "Info"
    /\ (lastOp = "Device.close" /\ exc = "none") => DeviceClosed /\ ~fdOpen

\* C3 witness: open() then close() have run on a device built from a path
LifecycleWitness ==
    /\ name_or_file = "path"
    /\ lastOp = "Device.close"
    /\ Issued(oplog, "fobj.close")
    /\ DeviceClosed

\* C4: a scope enter calls open() exactly when the nesting counter is 0, a
\* scope exit calls close() exactly when the counter returns to 0, an inner
\* exit leaves the descriptor alone, and for a device built from a path the
\* counter returns to 0 exactly when the caller's outermost scope is left.
ScopedReentrantAcquisition ==
    [][ /\ Did("Device.__enter__") => (Issued(oplog', "open()") <=> context_level = 0)
        /\ Did("Device.__exit__") =>
              /\ Issued(oplog', "close()") <=> context_level' = 0
              /\ context_level' > 0 => fobj' = fobj /\ fdOpen' = fdOpen
              /\ name_or_file = "path" => (context_level' = 0 <=> devScopes' = 0)
      ]_vars

\* C4 witness: an inner scope was left while the outer one is still active
\* and the device is still open
ScopedReentrantWitness ==
    /\ lastOp = "Device.__exit__"
    /\ name_or_file = "path"
    /\ devScopes = 1
    /\ context_level = 1
    /\ ~DeviceClosed


\* the call at position k of a log is a successful DQBUF that is followed,
\* before any other DQBUF and before the end of the log, by QBUF of its index
Requeued(log, k) ==
    \E j \in (k + 1) .. Len(log) :
        /\ log[j] = Call("QBUF", log[k].i, TRUE)
        /\ \A m \in (k + 1) .. (j - 1) : log[m].c # "DQBUF"

\* C1: in every operation each successful DQBUF of index i is followed by a
\* QBUF of i before the operation returns or raises and before any further
\* DQBUF; no buffer is user-owned once an operation has ended, at most one
\* was user-owned during it, and the reader holds no index afterwards.
DequeuedBufferRequeued ==
    /\ \A k \in 1 .. Len(oplog) :
           (oplog[k].c = "DQBUF" /\ oplog[k].ok) => Requeued(oplog, k)
    /\ UserOwned(kown) = {}
    /\ peakUser <= 1
    /\ reader_index = NoIndex

\* C1 witness: a read dequeued a buffer, slicing the mapping raised, and the
\* buffer was re-queued on the way out
DequeuedBufferRequeuedWitness ==
    /\ lastOp = "read"
    /\ exc = "ValueError"
    /\ \E k \in 1 .. Len(oplog) : oplog[k].c = "DQBUF" /\ oplog[k].ok
    /\ Issued(oplog, "QBUF")

\* the caller has received a frame from the running session
FrameDelivered == lastOp \in {"read", "aread"} /\ exc = "none"

\* C2: as long as the session streams, hence after any number of frames
\* the blocking, the readiness-gated or the async reader has delivered, the
\* kernel owns as many buffers as right after enqueue_buffers (all of them)
\* and no buffer is user-owned.
BufferAccounting ==
    streaming =>
        /\ Cardinality(KernelOwned(kown)) = queuedAtOpen
        /\ queuedAtOpen = Size
        /\ UserOwned(kown) = {}

\* C2 witness: the caller has iterated MaxFrames frames of a streaming session
BufferAccountingWitness ==
    /\ FrameDelivered
    /\ streaming
    /\ nframes = MaxFrames

FailedDQBUF(log) == \E k \in 1 .. Len(log) : log[k].c = "DQBUF" /\ ~log[k].ok

QueueUnchanged ==
    /\ kown' = kown /\ kinq' = kinq /\ kdoneq' = kdoneq
    /\ kcount' = kcount /\ streaming' = streaming
    /\ reader_index' = reader_index /\ mm_buffers' = mm_buffers

\* C8: a read whose DQBUF fails raises the ioctl's error as it is, issues
\* no QBUF and leaves the kernel's queues, the ownership of every buffer and
\* the reader as they were (so a later read dequeues as if it had not
\* happened); the async callback stores the same error in its future.
FailedDequeueKeepsOwnership ==
    [][ /\ (Did("read") /\ FailedDQBUF(oplog')) =>
              /\ exc' = "OSError"
              /\ \A k \in 1 .. Len(oplog') : oplog'[k].c # "QBUF"
              /\ QueueUnchanged
        /\ (Did("FrameReader._on_event") /\ FailedDQBUF(oplog')) =>
              /\ fr_buffer'[Len(fr_buffer')] = Future("OSError", NoFrame)
              /\ \A k \in 1 .. Len(oplog') : oplog'[k].c # "QBUF"
              /\ QueueUnchanged
      ]_vars

\* C8 witness: a DQBUF failed while the session streams with a filled
\* buffer waiting, which the next read can dequeue
FailedDequeueWitness ==
    /\ lastOp = "read"
    /\ FailedDQBUF(oplog)
    /\ streaming
    /\ kdoneq # <<>>
    /\ Cardinality(KernelOwned(kown)) = Size

----------------------------------------------------------------------------
(* Stream balance, teardown and buffer (re)creation *)

IssuedAny(log, c) == \E k \in 1 .. Len(log) : log[k].c = c

\* C5: once the session's scope is left no STREAMON of the session is
\* without its STREAMOFF, and a scope exit issues STREAMOFF only for a
\* session whose STREAMON is still unanswered.
StreamOnBalanced ==
    /\ [](~vcScope => ~vc_streamon)
    /\ [][(Did("VideoCapture.__exit__") /\ IssuedAny(oplog', "STREAMOFF"))
            => vc_streamon]_vars

AnyMapOpen(maps) ==
    maps # NoMaps /\ \E k \in 1 .. Len(maps) : maps[k] = "open"

\* C6: whenever the descriptor of the Device is closed, no mapping made by
\* the capture session on it is still open.
UnmappedBeforeFdClosed ==
    [][(fdOpen /\ ~fdOpen') => ~AnyMapOpen(mm_buffers)]_vars

FreesBuffers ==
    \/ Did("VideoCapture.__exit__")
    \/ Did("BufferManager.free_buffers")
    \/ Did("MemoryMap.close")

\* the log is STREAMOFF, then a close of each of n mappings, then REQBUFS(0)
TeardownLog(log, n) ==
    /\ Len(log) = n + 2
    /\ log[1] = Call("STREAMOFF", 0, TRUE)
    /\ \A k \in 1 .. n : log[k + 1] = Call("munmap", k - 1, TRUE)
    /\ log[n + 2].c = "REQBUFS" /\ log[n + 2].i = 0

\* STREAMOFF comes first; if it fails nothing else is issued and every
\* mapping stays as it was; otherwise every mapping is closed and then
\* REQBUFS(0) is issued
OrderedTeardown ==
    \/ /\ oplog' = <<Call("STREAMOFF", 0, FALSE)>>
       /\ mm_buffers' = mm_buffers /\ streaming'
    \/ TeardownLog(oplog', Len(mm_buffers))

\* C7 as stated: every operation that frees the buffers of a streaming
\* session issues STREAMOFF, then closes every mapping, then REQBUFS(0), and
\* closes no mapping while the queue streams.
TeardownOrderOfAnyFree ==
    [][(FreesBuffers /\ streaming) => OrderedTeardown]_vars

\* C7 amended: VideoCapture.close on a streaming session tears down in that
\* order; free_buffers and MemoryMap.close called on a streaming session
\* issue no STREAMOFF: REQBUFS(0) is refused, the queue keeps streaming, and
\* MemoryMap.close has closed every mapping by then.
TeardownOrderOfClose ==
    [][ /\ (Did("VideoCapture.__exit__") /\ streaming) => OrderedTeardown
        /\ (Did("BufferManager.free_buffers") /\ streaming) =>
              /\ oplog' = <<Call("REQBUFS", 0, FALSE)>>
              /\ streaming' /\ bm_buffers' = bm_buffers
        /\ (Did("MemoryMap.close") /\ streaming) =>
              /\ ~IssuedAny(oplog', "STREAMOFF")
              /\ oplog'[Len(oplog')] = Call("REQBUFS", 0, FALSE)
              /\ streaming' /\ ~AnyMapOpen(mm_buffers')
      ]_vars

\* C7 witness: a streaming session was closed with the full teardown
TeardownOrderWitness ==
    /\ lastOp = "VideoCapture.__exit__"
    /\ exc = "none"
    /\ TeardownLog(oplog, Size)
    /\ buffer = "None"

FailedFree(log) ==
    \E k \in 1 .. Len(log) : log[k] = Call("REQBUFS", 0, FALSE)

\* C9: a close whose REQBUFS(0) fails reports the error and leaves the
\* session closed (no buffers in the buffer manager or the memory map, no
\* buffer object in the session), and the next open starts from REQBUFS.
FailedFreeLeavesClosed ==
    [][ /\ (Did("VideoCapture.__exit__") /\ FailedFree(oplog')) =>
              /\ exc' = "OSError"
              /\ buffer' = "None"
              /\ bm_buffers' = NoBuffers
              /\ mm_buffers' = NoMaps
        /\ (Did("VideoCapture.__enter__") /\ lastOp = "VideoCapture.__exit__"
                /\ FailedFree(oplog)) =>
              (oplog' # <<>> /\ oplog'[1].c = "REQBUFS")
      ]_vars

\* C10: create_buffers on a buffer manager that holds buffers raises
\* V4L2Error, issues no call and changes nothing; one that holds none goes
\* on to REQBUFS; a free_buffers that returns leaves it holding none.
CreateBuffersTwiceFails ==
    [][ /\ (Did("BufferManager.create_buffers") /\ bm_buffers # NoBuffers) =>
              /\ exc' = "V4L2Error"
              /\ oplog' = <<>>
              /\ bm_buffers' = bm_buffers
              /\ kcount' = kcount /\ kown' = kown /\ kinq' = kinq
        /\ (Did("BufferManager.create_buffers") /\ bm_buffers = NoBuffers
                /\ fdOpen) =>
              /\ exc' # "V4L2Error"
              /\ oplog' # <<>> /\ oplog'[1].c = "REQBUFS"
              /\ (exc' = "none" => bm_buffers' = Range(Size))
        /\ (Did("BufferManager.free_buffers") /\ exc' = "none") =>
              bm_buffers' = NoBuffers
      ]_vars

\* C10 witness: a second create_buffers was refused
CreateBuffersTwiceWitness ==
    /\ lastOp = "BufferManager.create_buffers"
    /\ exc = "V4L2Error"
    /\ bm_buffers = Range(Size)
    /\ buffer = "None"

----------------------------------------------------------------------------
(* Allocation and start-up *)

IssuedOk(log, c) == \E k \in 1 .. Len(log) : log[k].c = c /\ log[k].ok

Allocates ==
    \/ Did("VideoCapture.__enter__") /\ buffer = "None"
    \/ Did("BufferManager.create_buffers") /\ bm_buffers = NoBuffers

\* C11: when REQBUFS returns count 0 the allocation raises the
\* out-of-memory error, issues no QUERYBUF, mmap or QBUF and records no
\* buffers; when it returns any count >= 1 (and the environment fails no
\* call) the buffers are recorded.
AllocationByGrantedCount ==
    [][(Allocates /\ IssuedOk(oplog', "REQBUFS") /\ ~envFault') =>
          /\ kcount' = 0 =>
                /\ exc' = "IOError"
                /\ Len(oplog') = 1
                /\ bm_buffers' = NoBuffers /\ mm_buffers' = mm_buffers
          /\ kcount' >= 1 =>
                /\ exc' = "none"
                /\ bm_buffers' = Range(Size)
      ]_vars

\* the calls of a start-up, in order: REQBUFS, QUERYBUF of every index, a
\* mapping of every index, QBUF of every index, G_FMT, STREAMON
StartupLog ==
    <<[c |-> "REQBUFS", i |-> Size]>>
    \o [k \in 1 .. Size |-> [c |-> "QUERYBUF", i |-> k - 1]]
    \o [k \in 1 .. Size |-> [c |-> "mmap", i |-> k - 1]]
    \o [k \in 1 .. Size |-> [c |-> "QBUF", i |-> k - 1]]
    \o <<[c |-> "G_FMT", i |-> 0], [c |-> "STREAMON", i |-> 0]>>

\* the log follows the start-up order as far as it goes, stops at its first
\* failed call, and is complete when the operation returned
FollowsStartup(log, e) ==
    /\ Len(log) <= Len(StartupLog)
    /\ \A k \in 1 .. Len(log) :
           /\ log[k].c = StartupLog[k].c /\ log[k].i = StartupLog[k].i
           /\ k < Len(log) => log[k].ok
    /\ e = "none" => (Len(log) = Len(StartupLog) /\ log[Len(log)].ok)

\* C12: opening a closed session issues REQBUFS, QUERYBUF and a mapping for
\* each index, QBUF of each buffer once and STREAMON, in that order, and no
\* operation issues DQBUF unless a STREAMON of the session has succeeded.
StartupOrder ==
    [][ /\ (Did("VideoCapture.__enter__") /\ buffer = "None" /\ ~DeviceClosed)
              => FollowsStartup(oplog', exc')
        /\ (Len(kdoneq') <= Len(kdoneq) /\ lastOp' \in {"read", "FrameReader._on_event"}
              /\ IssuedAny(oplog', "DQBUF")) => vc_streamon
      ]_vars

----------------------------------------------------------------------------
(* Frame delivery *)

\* the frames held by the futures of the async queue, in queue order
QueuedFrames ==
    IF fr_buffer = NoQueue THEN <<>>
    ELSE [k \in 1 .. Len(fr_buffer) |-> fr_buffer[k].frame.sequence]

BoundedFrameQueue ==
    /\ [](fr_buffer # NoQueue => Len(fr_buffer) <= max_queue_size)
    /\ [][Did("FrameReader._on_event") =>
            LET new == fr_buffer'[Len(fr_buffer')]
                full == Len(fr_buffer) >= max_queue_size
            IN  /\ fr_buffer' = Append(IF full THEN Tail(fr_buffer)
                                       ELSE fr_buffer, new)
                /\ full <=> IssuedAny(oplog', "warn missed frame")
                /\ IssuedOk(oplog', "DQBUF") =>
                       new = Future("none", Frame(SubSeq(Page(kfill[Head(kdoneq)]),
                                                         1, BytesUsed(kfill[Head(kdoneq)])),
                                                  Head(kdoneq), kfill[Head(kdoneq)],
                                                  mm_format))
                /\ max_queue_size = 1 => Head(fr_buffer') = new
         ]_vars

\* C14 witness: a callback found the queue full and replaced the first
\* frame by the second
BoundedFrameQueueWitness ==
    /\ lastOp = "FrameReader._on_event"
    /\ IssuedAny(oplog, "warn missed frame")
    /\ Len(fr_buffer) = max_queue_size
    /\ Head(fr_buffer).frame.sequence = 2

----------------------------------------------------------------------------
(* Event queue *)

\* C15: the event queue never holds more than its capacity, and a callback
\* that finds it full does not fail: it drops the oldest future and appends
\* the new one.
EventQueueOverflow ==
    /\ [](er_buffer # NoEvents => Len(er_buffer) <= event_max_queue_size)
    /\ [][(Did("EventReader._on_event")
              /\ Len(er_buffer) >= event_max_queue_size) =>
            /\ exc' = "none"
            /\ er_buffer' = Append(Tail(er_buffer), er_buffer'[Len(er_buffer')])
            /\ er_buffer'[Len(er_buffer')] = EventFuture("none", Head(kevq))
         ]_vars

----------------------------------------------------------------------------
(* Cancellation of the async reader *)

\* the async reader is suspended: between two steps of the event loop while
\* its queue exists (aread waits on the queue or on a queued future)
Suspended == fr_selector # "None"

\* C16: wherever the async reader is suspended no buffer is user-owned and
\* the queue reader holds no index; the callback re-queues every buffer it
\* dequeues before it returns; the teardown that a cancellation runs issues
\* no DQBUF and QBUF and moves no buffer, so that no buffer is user-owned
\* once the reader is torn down.
CancellationSafe ==
    /\ [](Suspended => (UserOwned(kown) = {} /\ reader_index = NoIndex))
    /\ [][ /\ Did("FrameReader._on_event") =>
                 \A k \in 1 .. Len(oplog') :
                     (oplog'[k].c = "DQBUF" /\ oplog'[k].ok)
                         => Requeued(oplog', k)
           /\ Did("FrameReader.__aexit__") =>
                 /\ ~IssuedAny(oplog', "DQBUF") /\ ~IssuedAny(oplog', "QBUF")
                 /\ kown' = kown /\ kinq' = kinq /\ kdoneq' = kdoneq
                 /\ UserOwned(kown') = {}
                 /\ reader_index' = NoIndex
         ]_vars

\* C16 witness: the async iteration was cancelled after the caller had
\* received the first frame and the callback had dequeued the second one,
\* which the caller never awaited; every buffer is back in the kernel
CancellationSafeWitness ==
    /\ lastOp = "FrameReader.__aexit__"
    /\ exc = "none"
    /\ fr_selector = "None"
    /\ streaming
    /\ nframes = 1 /\ delivered = 1
    /\ kseq = 2 /\ kdoneq = <<>>
    /\ Cardinality(KernelOwned(kown)) = Size

----------------------------------------------------------------------------
(* Synchronous readers *)

\* every DQBUF of the log comes after a select of the same log
SelectBeforeDequeue(log) ==
    \A k \in 1 .. Len(log) :
        log[k].c = "DQBUF" =>
            \E j \in 1 .. (k - 1) : log[j] = Call("select", 0, TRUE)

NothingReady == ~blocking /\ ~DeviceClosed /\ streaming /\ kdoneq = <<>>

\* C18: a read(timeout) on a non-blocking device whose select reports
\* nothing returns None (no frame, no exception), issues nothing but the
\* select, and leaves the queues and the ownership of every buffer as they
\* were.
ReadTimesOut ==
    [][(Did("read(timeout)") /\ NothingReady /\ ~envFault') =>
          /\ exc' = "none"
          /\ frame' = NoFrame
          /\ oplog' = <<Call("select", 0, TRUE)>>
          /\ QueueUnchanged
          /\ delivered' = delivered /\ nframes' = nframes
      ]_vars

\* C18 witness: a read(timeout) returned None from a streaming session
ReadTimesOutWitness ==
    /\ lastOp = "read(timeout)"
    /\ exc = "none"
    /\ frame = NoFrame
    /\ oplog = <<Call("select", 0, TRUE)>>
    /\ vcScope /\ streaming /\ kdoneq = <<>>

\* C19: the first MemoryMap.read of a session inspects the blocking mode
\* once, before anything else, and binds read to raw_read (blocking) or
\* wait_read (non-blocking); a later read of the session keeps the binding
\* and does not inspect the mode; raw_read never selects, wait_read selects
\* first; the binding changes in no other way than by a new session.
BindsOnce ==
    [][ /\ (Did("MemoryMap.read") /\ mm_read = "read") =>
              /\ DeviceClosed => (mm_read' = "read" /\ oplog' = <<>>)
              /\ ~DeviceClosed =>
                    /\ oplog'[1] = Call("get_blocking", 0, TRUE)
                    /\ \A k \in 2 .. Len(oplog') : oplog'[k].c # "get_blocking"
                    /\ mm_read' = IF blocking THEN "raw_read" ELSE "wait_read"
        /\ (Did("MemoryMap.read") /\ mm_read # "read") =>
              /\ mm_read' = mm_read
              /\ ~IssuedAny(oplog', "get_blocking")
        /\ (Did("MemoryMap.read") /\ mm_read' = "raw_read") =>
              ~IssuedAny(oplog', "select")
        /\ (Did("MemoryMap.read") /\ mm_read' = "wait_read" /\ ~DeviceClosed) =>
              oplog'[IF mm_read = "read" THEN 2 ELSE 1] = Call("select", 0, TRUE)
        /\ mm_read' # mm_read =>
              \/ Did("MemoryMap.read") /\ mm_read = "read"
              \/ Did("VideoCapture.__enter__") /\ buffer = "None"
                    /\ mm_read' = "read"
      ]_vars

\* C19 witness: the second read of a session used the bound wait_read
BindsOnceWitness ==
    /\ lastOp = "MemoryMap.read"
    /\ nframes = 2
    /\ frame # NoFrame
    /\ mm_read = "wait_read"
    /\ oplog[1] = Call("select", 0, TRUE)
    /\ ~IssuedAny(oplog, "get_blocking")

Delivers ==
    \/ Did("read")
    \/ Did("read(timeout)")
    \/ Did("MemoryMap.read")

\* C20: a frame a reader returns has as many bytes as the bytesused of the
\* buffer it dequeued, at most the buffer's length; they are the first
\* bytesused bytes of the mapping of that index; its index and sequence are
\* the buffer's; its format is the one the session read with G_FMT when it
\* was opened, which nothing changes while the session lasts.
FrameExact ==
    /\ [](frame # NoFrame =>
             (Len(frame.data) = frame.nbytes /\ frame.nbytes <= Length))
    /\ [][ /\ (Delivers /\ IssuedOk(oplog', "DQBUF") /\ exc' = "none") =>
                 /\ frame'.index = Head(kdoneq)
                 /\ frame'.sequence = kfill[Head(kdoneq)]
                 /\ frame'.nbytes = BytesUsed(kfill[Head(kdoneq)])
                 /\ frame'.data = SubSeq(Page(kfill[Head(kdoneq)]), 1,
                                         BytesUsed(kfill[Head(kdoneq)]))
                 /\ frame'.format = mm_format
           /\ (Did("VideoCapture.__enter__") /\ buffer = "None"
                   /\ exc' = "none") =>
                 (mm_format' = kfmt /\ kfmt' = kfmt)
           /\ (mm_format' # mm_format /\ mm_format # NoFormat) =>
                 (Did("VideoCapture.__exit__") /\ mm_format' = NoFormat)
         ]_vars

\* C20 witness: a partly filled buffer was delivered with the format read at
\* open although the driver's format has changed since
FrameExactWitness ==
    /\ lastOp = "read"
    /\ exc = "none"
    /\ frame.sequence = 1
    /\ frame.nbytes = 1 /\ frame.nbytes < Length
    /\ frame.data = <<1>>
    /\ frame.format = 2
    /\ kfmt = 1

----------------------------------------------------------------------------
(* Capability discovery *)

Opens == Did("Device.open") \/ Did("Device.__enter__")

\* C21: capability discovery runs on the first open of a Device only: an
\* open of an open device acquires nothing and discovers nothing, and an
\* open of a device whose info is already set does not query it again.
InfoPopulatedOnce ==
    [][Opens =>
          /\ ~DeviceClosed =>
                (~IssuedAny(oplog', "io.open") /\ ~IssuedAny(oplog', "QUERYCAP"))
          /\ info # "None" => ~IssuedAny(oplog', "QUERYCAP")
      ]_vars

----------------------------------------------------------------------------
(* Controls: writes *)

\* the control the last operation addressed, and what the kernel holds for it
Addressee == controls[target]

Held(c) == kval[CHOOSE j \in 1 .. Len(kctrl) : kctrl[j].id = c.info.id]

InRange(c, x) == x >= c.info.minimum /\ x <= c.info.maximum

\* C23: a write of an integer x to a numeric control hands the device x
\* clamped to [minimum, maximum] and nothing else when clipping is on (so
\* writing maximum + 1 leaves the control at maximum); when clipping is off
\* an x outside the range raises ValueError and no S_CTRL is issued.
NumericClipping ==
    [][(Did("control.value=")
        /\ ControlKind(controls[target']) = "IntegerControl"
        /\ arg'.t = "int") =>
          LET c == controls[target']
              x == arg'.i
              clamped == Clamp(x, c.info.minimum, c.info.maximum)
          IN  /\ \A n \in 1 .. Len(oplog') :
                    oplog'[n].c = "S_CTRL.value" => oplog'[n].i = clamped
              /\ (~c.clipping /\ ~InRange(c, x)) =>
                    (exc' = "ValueError" /\ ~IssuedAny(oplog', "S_CTRL"))
              /\ ((c.clipping \/ InRange(c, x)) /\ is_writeable(c)) =>
                    IssuedAny(oplog', "S_CTRL")
              /\ exc' = "none" =>
                    \E j \in 1 .. Len(kctrl) :
                        kctrl[j].id = c.info.id /\ kval'[j] = clamped
      ]_vars

\* an integer control with clipping on was written maximum + 1 and holds
\* its maximum
NumericClippingWitness ==
    /\ lastOp = "control.value=" /\ exc = "none"
    /\ ControlKind(Addressee) = "IntegerControl"
    /\ Addressee.clipping
    /\ arg = PyInt(Addressee.info.maximum + 1)
    /\ Issued(oplog, "S_CTRL")
    /\ Held(Addressee) = Addressee.info.maximum


WriteOps ==
    {"control.value=", "control.set_to_default", "control.increase",
     "control.push"}

WroteControl == \E op \in WriteOps : Did(op)

NamesReasons(log, c) ==
    \E n \in 1 .. Len(log) :
        log[n].c = "not writeable" /\ log[n].i = Reasons(c)

Handed(log, b) ==
    \A n \in 1 .. Len(log) : log[n].c = "S_CTRL.value" => log[n].i = b

\* C25: a write to a Boolean control hands the device true for the literal
\* true and the strings true, 1, yes, on, enable, and false for the literal
\* false and the strings false, 0, no, off, disable; any other string
\* raises the coercion error (ValueError) and writes nothing; a value that
\* is no string is taken by its truthiness.
BooleanCoercion ==
    [][(Did("control.value=")
        /\ ControlKind(controls[target']) = "BooleanControl") =>
          LET c == controls[target']
              x == arg'
              truth ==
                  IF x.t = "str"
                  THEN IF x.s \in {"true", "1", "yes", "on", "enable"} THEN 1
                       ELSE IF x.s \in {"false", "0", "no", "off", "disable"}
                            THEN 0 ELSE 2
                  ELSE IF x.i # 0 THEN 1 ELSE 0
          IN  IF truth = 2
              THEN exc' = "ValueError" /\ oplog' = <<>> /\ kval' = kval
              ELSE /\ Handed(oplog', truth)
                   /\ is_writeable(c) => IssuedAny(oplog', "S_CTRL")
                   /\ exc' = "none" =>
                         \E j \in 1 .. Len(kctrl) :
                             kctrl[j].id = c.info.id /\ kval'[j] = truth
      ]_vars

\* the string off was written to a Boolean control, which now is false
BooleanCoercionWitness ==
    /\ lastOp = "control.value=" /\ exc = "none"
    /\ ControlKind(Addressee) = "BooleanControl"
    /\ arg = PyStr("off")
    /\ Issued(oplog, "S_CTRL")
    /\ Held(Addressee) = 0


----------------------------------------------------------------------------
(* Controls: bulk reset, lookup and classes *)

Attempted(log, c) ==
    \E n \in 1 .. Len(log) : log[n].c = "S_CTRL" /\ log[n].i = c.info.id

\* C26: controls.set_to_default() never raises: whatever fails on one
\* control, every writable control is still attempted, and every control
\* whose write succeeded holds its default.
BulkResetBestEffort ==
    [][(Did("controls.set_to_default") /\ controls # NoControls) =>
          /\ exc' = "none"
          /\ \A k \in 1 .. Len(controls) :
                is_writeable(controls[k]) => Attempted(oplog', controls[k])
          /\ \A k \in 1 .. Len(controls), n \in 1 .. Len(oplog') :
                (oplog'[n] = Call("S_CTRL", controls[k].info.id, TRUE)) =>
                    \E j \in 1 .. Len(kctrl) :
                        /\ kctrl[j].id = controls[k].info.id
                        /\ kval'[j] = kctrl[j].default_value
      ]_vars


\* C27: for every registered control c, controls[c.id] and
\* controls[c.config_name] return c; a key that is neither a registered id
\* nor the config_name of a registered control raises KeyError and leaves
\* the registry as it was.
LookupReturnsControl ==
    [][Did("controls[key]") =>
          /\ \A k \in 1 .. Len(controls) :
                (key' \in {IdKey(controls[k].info.id),
                           NameKey(config_name(controls[k].info.name))}) =>
                    (exc' = "none" /\ target' = k)
          /\ (\A k \in 1 .. Len(controls) :
                key' \notin {IdKey(controls[k].info.id),
                             NameKey(config_name(controls[k].info.name))}) =>
                    (exc' = "KeyError" /\ controls' = controls)
      ]_vars


\* the class under which the n-th entry of the log is listed
ListedUnder(log, n) ==
    LET heads == {m \in 1 .. n : log[m].c = "used_class"}
    IN  log[CHOOSE m \in heads : \A h \in heads : h <= m].i

\* C28: used_classes() is the set of the classes of the registered
\* controls, and listing with_class(c) for every c of used_classes() lists
\* every registered control exactly once, under its own class.
ClassGrouping ==
    [][Did("controls.used_classes") =>
          LET ids == {controls[k].info.id : k \in 1 .. Len(controls)}
              heads == {n \in 1 .. Len(oplog') : oplog'[n].c = "used_class"}
              items == {n \in 1 .. Len(oplog') : oplog'[n].c = "with_class"}
          IN  /\ {oplog'[n].i : n \in heads} = {(id \div 16) * 16 : id \in ids}
              /\ \A m, n \in heads : oplog'[m].i = oplog'[n].i => m = n
              /\ {oplog'[n].i : n \in items} = ids
              /\ \A m, n \in items : oplog'[m].i = oplog'[n].i => m = n
              /\ \A n \in items :
                    ListedUnder(oplog', n) = (oplog'[n].i \div 16) * 16
      ]_vars

\* the controls of a registry with two classes were listed by class
ClassGroupingWitness ==
    /\ lastOp = "controls.used_classes"
    /\ Len(controls) = 2
    /\ Cardinality({n \in 1 .. Len(oplog) : oplog[n].c = "used_class"}) = 2
    /\ Cardinality({n \in 1 .. Len(oplog) : oplog[n].c = "with_class"}) = 2


----------------------------------------------------------------------------
(* The closed device *)

ConfigOps ==
    {"ConfigManager.save", "ConfigManager.load", "ConfigManager.apply",
     "ConfigManager.verify"}

\* C22: on a closed Device the methods that need the descriptor (format,
\* fps, selection, priority, stream on and off, buffer and event
\* operations) and ConfigManager's save, load, apply and verify raise an
\* error, issue no call to the driver, and leave the device closed, the
\* driver's state and the file untouched.
ClosedDeviceRefuses ==
    [][((\E op \in DeviceMethods \cup ConfigOps : Did(op)) /\ DeviceClosed) =>
          /\ exc' # "none"
          /\ oplog' = <<>>
          /\ fobj' = "None" \/ ~fdOpen'
          /\ lastOp' \in ConfigOps => exc' \in {"V4L2Error", "RuntimeError"}
          /\ <<kval, kcount, kown, kinq, streaming, kfmt, kevq>>'
                = <<kval, kcount, kown, kinq, streaming, kfmt, kevq>>
          /\ file' = file
      ]_vars

\* apply was refused on a device that was closed after the configuration
\* had been loaded
ClosedDeviceRefusesWitness ==
    /\ lastOp = "ConfigManager.apply" /\ exc = "V4L2Error"
    /\ DeviceClosed
    /\ cm_filename = "path"
    /\ oplog = <<>>


----------------------------------------------------------------------------
(* ConfigManager: round trips *)

\* the loaded configuration is a snapshot of the present registry: it has
\* both sections and one item for the config_name of every control
SnapshotLoaded ==
    /\ cm_filename = "path"
    /\ ~DeviceClosed
    /\ controls # NoControls
    /\ cm_config.sections = {"device", "controls"}
    /\ {cm_config.controls[n].name : n \in 1 .. Len(cm_config.controls)}
          = {config_name(controls[k].info.name) : k \in 1 .. Len(controls)}

\* C29: on an open device, validate(pedantic=True) of a configuration that
\* was saved from, and loaded back on, the same device succeeds.
ValidateRoundTrip ==
    [][(Did("ConfigManager.validate") /\ arg' = PyBool(TRUE)
        /\ SnapshotLoaded) => exc' = "none"]_vars

\* C30: on an open device, apply(cycles=2) of a loaded snapshot succeeds,
\* whatever the kinds of the controls, and afterwards every readable control
\* reads back as the snapshot says.
ApplyRoundTrip ==
    [][(Did("ConfigManager.apply") /\ arg' = PyInt(2) /\ SnapshotLoaded
        /\ ~envFault') =>
          /\ exc' = "none"
          /\ \A k \in 1 .. Len(controls), n \in 1 .. Len(cm_config.controls) :
                (/\ cm_config.controls[n].name
                       = config_name(controls[k].info.name)
                 /\ "write_only" \notin controls[k].info.flags) =>
                    \E j \in 1 .. Len(kctrl) :
                        /\ kctrl[j].id = controls[k].info.id
                        /\ str(convert_read(controls[k], PyInt(kval'[j])))
                              = cm_config.controls[n].value
      ]_vars


----------------------------------------------------------------------------
(* ConfigManager: apply *)

\* what one item of [controls] asks of apply: a write of its value to the
\* control of that name, or a skip when the control is not writable
Asked(it) ==
    LET k == CHOOSE k \in 1 .. Len(controls) :
                 /\ config_name(controls[k].info.name) = it.name
                 /\ \A j \in 1 .. Len(controls) :
                       config_name(controls[j].info.name) = it.name => k <= j
    IN  IF is_writeable(controls[k])
        THEN [c |-> "S_CTRL", i |-> controls[k].info.id,
              v |-> IF IsDecimal(it.value) THEN int(it.value) ELSE -2]
        ELSE [c |-> "skipped", i |-> controls[k].info.id, v |-> 0]

\* the writes and skips of a log, each write with the value it carried
Done(log) ==
    LET at == SelectSeq([n \in 1 .. Len(log) |-> n],
                        LAMBDA n : log[n].c \in {"S_CTRL", "skipped"})
    IN  [m \in 1 .. Len(at) |->
            [c |-> log[at[m]].c, i |-> log[at[m]].i,
             v |-> IF log[at[m]].c = "S_CTRL" THEN log[at[m] - 1].i ELSE 0]]

\* C31: apply(cycles=k) on an open device goes k times through the items
\* of [controls] in file order; it writes every writable control once per
\* pass with the configured value and skips every other control without a
\* write; the first error ends it, with nothing written after it.
ApplyPasses ==
    [][(Did("ConfigManager.apply") /\ cm_filename = "path" /\ ~DeviceClosed
        /\ controls # NoControls /\ "controls" \in cm_config.sections) =>
          LET items == cm_config.controls
              asked == [n \in 1 .. arg'.i * Len(items) |->
                           Asked(items[((n - 1) % Len(items)) + 1])]
              done == Done(oplog')
              failed == {n \in 1 .. Len(oplog') : ~oplog'[n].ok}
          IN  /\ Len(done) <= Len(asked)
              /\ \A n \in 1 .. Len(done) : done[n] = asked[n]
              /\ exc' = "none" => (Len(done) = Len(asked) /\ failed = {})
              /\ failed \subseteq {Len(oplog')}
              /\ exc' # "none" =>
                    (Len(done) < Len(asked) \/ failed = {Len(oplog')})
      ]_vars

\* apply(cycles=2) wrote a writable control twice and skipped another twice
ApplyPassesWitness ==
    /\ lastOp = "ConfigManager.apply" /\ exc = "none" /\ arg = PyInt(2)
    /\ Cardinality({n \in 1 .. Len(oplog) : oplog[n].c = "skipped"}) = 2
    /\ Cardinality({n \in 1 .. Len(oplog) :
                      oplog[n].c = "S_CTRL" /\ oplog[n].ok}) = 2

----------------------------------------------------------------------------
(* device_number *)

\* the longest path device_number is given
MaxPath == 4

\* the characters of the paths: a separator, a letter and three digits
Alphabet == {"/", "v", "0", "1", "9"}

Paths == UNION {[1 .. n -> Alphabet] : n \in 0 .. MaxPath}

DecimalDigits == <<"0", "1", "2", "3", "4", "5", "6", "7", "8", "9">>

\* c.isdigit()
isdigit(c) == \E d \in 1 .. 10 : DecimalDigits[d] = c

\* the value int() gives a digit
DigitValue(c) == (CHOOSE d \in 1 .. 10 : DecimalDigits[d] = c) - 1

\* int(num) of a non-empty run of digits: leading zeros count for nothing
RECURSIVE ParseInt(_)
ParseInt(num) ==
    IF num = <<>> THEN 0
    ELSE 10 * ParseInt(SubSeq(num, 1, Len(num) - 1)) + DigitValue(num[Len(num)])

\* the loop over str(path)[::-1]: num = c + num until the first non-digit
RECURSIVE ScanBack(_, _)
ScanBack(w, num) ==
    IF w = <<>> \/ ~isdigit(w[Len(w)]) THEN num
    ELSE ScanBack(SubSeq(w, 1, Len(w) - 1), <<w[Len(w)]>> \o num)

\* a device_number that collects every digit of the path
device_number_every_digit(w) ==
    LET num == SelectSeq(w, isdigit)
    IN  IF num = <<>> THEN <<>> ELSE <<ParseInt(num)>>

device_number(w) ==
    LET num == ScanBack(w, <<>>)
    IN  IF num = <<>> THEN <<>> ELSE <<ParseInt(num)>>

\* device_number(path)
DeviceNumber ==
    Commit([St("none", 0) EXCEPT !.number = device_number(path)],
           "device_number")
    /\ UNCHANGED <<devScopes, vcScope, nframes>>

InitNumber ==
    /\ kctrl = <<>> /\ file = NoFile /\ InitDevice /\ ~blocking
    /\ path \in Paths /\ number = <<>>
    /\ kenum = <<>> /\ enum = NoEnum /\ yielded = <<>>

NextNumber == DeviceNumber

SpecNumber == InitNumber /\ [][NextNumber]_vars

\* 10 ** e
RECURSIVE Pow10(_)
Pow10(e) == IF e = 0 THEN 1 ELSE 10 * Pow10(e - 1)

\* the value of the decimal numeral path[k .. Len(path)], position by position
RECURSIVE Weighted(_, _)
Weighted(w, k) ==
    IF k > Len(w) THEN 0
    ELSE DigitValue(w[k]) * Pow10(Len(w) - k) + Weighted(w, k + 1)

\* C32: device_number(path) is None when the path is empty or ends in a
\* character that is no decimal digit; else it is the value of the decimal
\* numeral made of the maximal run of digits that ends the path
TrailingNumber ==
    lastOp = "device_number" =>
        IF path = <<>> \/ ~isdigit(path[Len(path)])
        THEN number = <<>>
        ELSE \E k \in 1 .. Len(path) :
                 /\ \A j \in k .. Len(path) : isdigit(path[j])
                 /\ k > 1 => ~isdigit(path[k - 1])
                 /\ number = <<Weighted(path, k)>>

\* a path with a digit before its trailing run, which starts with a zero
TrailingNumberWitness ==
    /\ lastOp = "device_number"
    /\ path = <<"1", "v", "0", "9">>
    /\ number = <<9>>

\* C33: a load that returns leaves the manager holding the file's contents
\* and nothing else, marked loaded; the manager is marked loaded by no other
\* step, and a reset leaves it empty and not loaded; validate, apply and
\* verify on a manager that is not loaded raise RuntimeError and issue no
\* control read or write
LoadStateMachine ==
    [][/\ (Did("ConfigManager.load") /\ exc' = "none") =>
              (file # NoFile /\ cm_config' = file /\ cm_filename' = "path")
       /\ (cm_filename' = "path"
           /\ ~(Did("ConfigManager.load") /\ exc' = "none")) =>
              cm_filename = "path"
       /\ Did("ConfigManager.reset") =>
              (cm_config' = Config({}, <<>>) /\ cm_filename' = "None")
       /\ (lastOp' \in {"ConfigManager.validate", "ConfigManager.apply",
                        "ConfigManager.verify"}
           /\ cm_filename = "None") =>
              (exc' = "RuntimeError" /\ oplog' = <<>> /\ kval' = kval
               /\ cm_filename' = "None")
      ]_vars

\* a load of a file of other origin has returned on an open device
LoadStateMachineWitness ==
    /\ lastOp = "ConfigManager.load" /\ exc = "none"
    /\ cm_config = Foreign /\ cm_filename = "path"
    /\ ~DeviceClosed

----------------------------------------------------------------------------
(* iter_read *)

\* the largest stop and the largest step iter_read is given
MaxStop == 4

MaxStep == 2

\* what the kernel answers to the enumeration ioctl for an index: the entry,
\* EINVAL, or another error
KernelAnswers == {"ok", "EINVAL", "EIO"}

\* the kernel's answer for index i
Answer(s, i) == s.kenum[i + 1]

\* indexed_struct.index = index; ioctl(fd, ioc, indexed_struct)
ioctl_enum(s, index) == Log(s, "ioctl", index, Answer(s, index) = "ok")

\* yield indexed_struct
Yield(s, index) == [s EXCEPT !.yielded = Append(@, index)]

\* an iter_read that stops at EINVAL whatever ignore_einval is
RECURSIVE iter_read_break(_, _)
iter_read_break(s, index) ==
    IF index >= s.enum.stop THEN s
    ELSE LET x == ioctl_enum(s, index)
         IN  CASE Answer(s, index) = "ok" ->
                      iter_read_break(Yield(x, index), index + s.enum.step)
               [] Answer(s, index) = "EINVAL" -> x
               [] OTHER -> Raise(x, "OSError")

\* the generator run to its end, from the given index of the range on
RECURSIVE iter_read(_, _)
iter_read(s, index) ==
    IF index >= s.enum.stop THEN s
    ELSE LET x == ioctl_enum(s, index)
         IN  CASE Answer(s, index) = "ok" ->
                      iter_read(Yield(x, index), index + s.enum.step)
               [] Answer(s, index) = "EINVAL" ->
                      IF s.enum.ignore_einval
                      THEN iter_read(x, index + s.enum.step)
                      ELSE x
               [] OTHER -> Raise(x, "OSError")

\* list(iter_read(fd, ioc, struct, start, stop, step, ignore_einval))
IterRead ==
    /\ Commit(iter_read([St("none", 0) EXCEPT !.yielded = <<>>], enum.start),
              "iter_read")
    /\ UNCHANGED <<devScopes, vcScope, nframes>>

InitEnum ==
    /\ kctrl = <<>> /\ file = NoFile /\ InitDevice /\ ~blocking
    /\ path = <<>> /\ number = <<>>
    /\ kenum \in [1 .. MaxStop -> KernelAnswers]
    /\ \E start \in 0 .. 1, step \in 1 .. MaxStep, ignore_einval \in BOOLEAN :
           \E stop \in start .. MaxStop :
               enum = Enum(start, stop, step, ignore_einval)
    /\ yielded = <<>>

NextEnum == IterRead

SpecEnum == InitEnum /\ [][NextEnum]_vars

\* the j-th index of range(start, stop, step)
RangeIndex(j) == enum.start + (j - 1) * enum.step

\* ceil((stop - start) / step)
RangeLen == (enum.stop - enum.start + enum.step - 1) \div enum.step

\* C34: iter_read issues the kernel call for start, start + step, ... below
\* stop, in order, until the range ends, an error other than EINVAL is
\* answered (which it raises), or, without ignore_einval, EINVAL is
\* answered (where it stops silently); it yields exactly the indices called
\* with success, and makes at most ceil((stop - start) / step) calls
EnumerationContract ==
    lastOp = "iter_read" =>
        LET enders == {j \in 1 .. RangeLen :
                          \/ kenum[RangeIndex(j) + 1] = "EIO"
                          \/ /\ kenum[RangeIndex(j) + 1] = "EINVAL"
                             /\ ~enum.ignore_einval}
            last == IF enders = {} THEN RangeLen
                    ELSE CHOOSE j \in enders : \A m \in enders : j <= m
        IN  /\ Len(oplog) = last
            /\ Len(oplog) <= RangeLen
            /\ \A j \in 1 .. last :
                   /\ oplog[j].i = RangeIndex(j)
                   /\ oplog[j].ok = (kenum[RangeIndex(j) + 1] = "ok")
            /\ yielded = SelectSeq([j \in 1 .. last |-> RangeIndex(j)],
                                   LAMBDA i : kenum[i + 1] = "ok")
            /\ exc = IF enders # {} /\ kenum[RangeIndex(last) + 1] = "EIO"
                     THEN "OSError" ELSE "none"

\* with ignore_einval an EINVAL was passed over, the next index was yielded
\* and the error after it was raised
EnumerationContractWitness ==
    /\ lastOp = "iter_read"
    /\ enum = Enum(0, 4, 1, TRUE)
    /\ kenum = <<"ok", "EINVAL", "ok", "EIO">>
    /\ yielded = <<0, 2>> /\ exc = "OSError" /\ Len(oplog) = 4

----------------------------------------------------------------------------
(* Device.__init__ given an open file object *)

\* the caller has opened the device file; Device.__init__ has run up to the
\* test of name_or_file
InitFile ==
    /\ kctrl \in KernelControls /\ file = NoFile
    /\ name_or_file = "file" /\ lastOp = "open(path)"
    /\ blocking \in BOOLEAN
    /\ fobj = "None" /\ fdOpen = TRUE
    /\ context_level = 0 /\ info = "None"
    /\ controls = NoControls
    /\ Fresh /\ NoCalls

\* Device(fobj)
DevNew ==
    \E f \in {"none", "QUERYCAP"} :
        /\ lastOp = "open(path)"
        /\ Commit(Device_new(St(f, 0)), "Device(file)")
        /\ UNCHANGED <<devScopes, vcScope, nframes>>

NextFile == DevNew

SpecFile == InitFile /\ [][NextFile]_vars

\* C35: Device(fobj) on an open file, with no call failing in the
\* environment, returns and leaves the device open at nesting level 1 with
\* info and controls set
FileDeviceOpen ==
    (lastOp = "Device(file)" /\ ~envFault) =>
        /\ exc = "none"
        /\ ~DeviceClosed /\ context_level = 1
        /\ info = "Info" /\ controls # NoControls

\* C36: a VideoCapture.open that raises on a closed session of an open
\* device leaves the session closed (buffer unset), no mapping of the attempt open and no
\* kernel buffer reserved; and an open that returns on a session left
\* without STREAMON by an earlier attempt issues the start-up calls
FailedStartLeavesClosed ==
    [][ /\ (Did("VideoCapture.__enter__") /\ buffer = "None" /\ ~DeviceClosed
            /\ exc' # "none") =>
              /\ buffer' = "None"
              /\ \A k \in 1 .. Len(mm_buffers') : mm_buffers'[k] # "open"
              /\ kcount' = 0
        /\ (Did("VideoCapture.__enter__") /\ ~vc_streamon /\ exc' = "none") =>
              IssuedOk(oplog', "STREAMON")
      ]_vars

\* C37: a Device.open, called directly or by a scope enter, that raises on
\* a closed device leaves the device closed with the descriptor released,
\* and the nesting counter as it was
FailedOpenLeavesClosed ==
    [][((Did("Device.open") \/ Did("Device.__enter__")) /\ DeviceClosed
        /\ exc' # "none") =>
           /\ fobj' = "None" /\ ~fdOpen'
           /\ context_level' = context_level
      ]_vars

\* C38: while the nesting counter of the Device is above 0 the device is open
OpenWhileScoped == context_level > 0 => ~DeviceClosed

\* the number of successful calls c in a log
Count(log, c) == Cardinality({k \in 1 .. Len(log) : log[k].c = c /\ log[k].ok})

\* C39: an allocation whose REQBUFS succeeded issues no QUERYBUF, mapping or
\* QBUF for an index at or above the granted count, and a session that
\* opened has queried, mapped and enqueued as many buffers as were granted
GrantedCountUsed ==
    [][(Allocates /\ IssuedOk(oplog', "REQBUFS")) =>
          /\ \A k \in 1 .. Len(oplog') :
                 oplog'[k].c \in {"QUERYBUF", "mmap", "QBUF"} =>
                     oplog'[k].i < kcount'
          /\ (Did("VideoCapture.__enter__") /\ exc' = "none") =>
                 /\ Count(oplog', "QUERYBUF") = kcount'
                 /\ Count(oplog', "mmap") = kcount'
                 /\ Count(oplog', "QBUF") = kcount'
      ]_vars

\* C40: a reader that delivers a frame copies the bytes between the DQBUF
\* and the QBUF of the buffer; a fill by the kernel leaves the frame the
\* caller holds as it is; and the bytes of a frame are at all times those
\* the kernel wrote for the frame's sequence number
FrameSnapshot ==
    /\ [][(Delivers /\ IssuedOk(oplog', "DQBUF") /\ exc' = "none") =>
             \E a, b, c \in 1 .. Len(oplog') :
                 /\ a < b /\ b < c
                 /\ oplog'[a] = Call("DQBUF", frame'.index, TRUE)
                 /\ oplog'[b] = Call("slice", frame'.index, TRUE)
                 /\ oplog'[c] = Call("QBUF", frame'.index, TRUE)
         ]_vars
    /\ [][Len(kdoneq') > Len(kdoneq) => frame' = frame]_vars
    /\ [](frame # NoFrame =>
             frame.data = SubSeq(Page(frame.sequence), 1,
                                 BytesUsed(frame.sequence)))

\* C40 witness: the kernel has filled the buffer of the frame the caller
\* holds again, and the frame still has the bytes of its own sequence number
FrameSnapshotWitness ==
    /\ lastOp = "read"
    /\ frame # NoFrame
    /\ frame.sequence = 1 /\ frame.data = <<1>>
    /\ kfill[frame.index] = 3
    /\ kown[frame.index] = "done"

====
